---- MODULE Spec2Model ----
(***************************************************************************)
(* HealthTrackIoT: the threshold evaluator (server/thingspeak.ts,          *)
(* checkForAlerts) over the alert and threshold stores (server/storage.ts). *)
(*                                                                         *)
(* Numbers.  Every vital value and bound of the program is a JavaScript    *)
(* number with at most one fractional digit (60, 36.5, 38.2).  The model   *)
(* keeps such a number as an integer count of tenths: 36.5 is 365, 120 is  *)
(* 1200.  A JavaScript value is a record: Num(n) for the number n/10, NaN  *)
(* for not-a-number, Undefined for a missing field.                        *)
(***************************************************************************)
EXTENDS Integers, Sequences, FiniteSets, TLC

VARIABLES
    alerts,          \* the alerts table: sequence of Alert rows in insertion order
    currentAlertId,  \* the next id of the alerts table (serial / currentAlertId)
    thresholds,      \* the thresholds table: sequence of Threshold rows
    currentThresholdId, \* the next id of the thresholds table
    call,            \* per process: the running checkForAlerts invocation
    invocations,     \* number of checkForAlerts invocations started so far
    devices,         \* the devices table: sequence of Device rows in insertion order
    request          \* per process: the request its route handler was given

vars == <<alerts, currentAlertId, thresholds, currentThresholdId, call, invocations,
          devices, request>>

-----------------------------------------------------------------------------
(* JavaScript values *)

Num(n) == [t |-> "number", v |-> n]
NaN == [t |-> "NaN"]
Undefined == [t |-> "undefined"]

IsNum(x) == x.t = "number"

\* a < b on JavaScript numbers: false as soon as one side is NaN
JsLt(a, b) == IsNum(a) /\ IsNum(b) /\ a.v < b.v
\* a > b
JsGt(a, b) == IsNum(a) /\ IsNum(b) /\ a.v > b.v
\* a - k and a + k for a literal k given in tenths: NaN stays NaN
JsSub(a, k) == IF IsNum(a) THEN Num(a.v - k) ELSE NaN
JsAdd(a, k) == IF IsNum(a) THEN Num(a.v + k) ELSE NaN

-----------------------------------------------------------------------------
(* parseFloat.  A numeric column of the thresholds table is read back as a *)
(* string; the model keeps a string as the sequence of its characters.     *)

Digits == <<"0", "1", "2", "3", "4", "5", "6", "7", "8", "9">>
IsDigit(c) == \E i \in 1..10 : Digits[i] = c
DigitVal(c) == (CHOOSE i \in 1..10 : Digits[i] = c) - 1

\* length of the longest prefix of s made of digits
RECURSIVE DigitRun(_)
DigitRun(s) ==
    IF s = <<>> \/ ~IsDigit(Head(s)) THEN 0 ELSE 1 + DigitRun(Tail(s))

\* value of a sequence of digits
RECURSIVE DigitsVal(_, _)
DigitsVal(s, acc) ==
    IF s = <<>> THEN acc ELSE DigitsVal(Tail(s), 10 * acc + DigitVal(Head(s)))

\* parseFloat(s) for an unsigned s: digits, then optionally "." and digits;
\* whatever follows the number is ignored; no digit at all gives NaN.  The
\* result is in tenths, so only the first fractional digit counts.
ParseUnsigned(s) ==
    LET n == DigitRun(s)
        rest == SubSeq(s, n + 1, Len(s))
        hasFrac == rest # <<>> /\ Head(rest) = "."
        m == IF hasFrac THEN DigitRun(Tail(rest)) ELSE 0
        frac == IF m > 0 THEN DigitVal(rest[2]) ELSE 0
    IN  IF n = 0 /\ m = 0 THEN NaN
        ELSE Num(10 * DigitsVal(SubSeq(s, 1, n), 0) + frac)

\* mutant: parseInt in place of parseFloat, the fraction dropped
ParseIntOnly(s) ==
    LET n == DigitRun(s)
    IN  IF n = 0 THEN NaN ELSE Num(10 * DigitsVal(SubSeq(s, 1, n), 0))

ParseFloat(s) ==
    IF s # <<>> /\ Head(s) = "-"
        THEN LET r == ParseUnsigned(Tail(s)) IN IF IsNum(r) THEN Num(0 - r.v) ELSE NaN
        ELSE IF s # <<>> /\ Head(s) = "+" THEN ParseUnsigned(Tail(s))
        ELSE ParseUnsigned(s)

\* a string in a condition: the empty string, null and undefined are falsy
Truthy(s) == s # <<>>

-----------------------------------------------------------------------------
(* Number to string, as a template literal does it: 1200 tenths is "120",  *)
(* 382 tenths is "38.2".                                                   *)

NumberToString(x) ==
    IF ~IsNum(x) THEN "NaN"
    ELSE LET a == IF x.v < 0 THEN 0 - x.v ELSE x.v
             body == IF a % 10 = 0 THEN ToString(a \div 10)
                     ELSE ToString(a \div 10) \o "." \o ToString(a % 10)
         IN  IF x.v < 0 THEN "-" \o body ELSE body

-----------------------------------------------------------------------------
(* shared/schema.ts *)

\* the default vital sign ranges, in tenths
VITAL_RANGES ==
    [heartRate   |-> [min |-> Num(600), max |-> Num(1000), unit |-> "BPM"],
     oxygen      |-> [min |-> Num(950), max |-> Num(1000), unit |-> "%"],
     temperature |-> [min |-> Num(365), max |-> Num(375), unit |-> "degC"]]

\* the column defaults of the thresholds table
HeartRateMinDefault == <<"6", "0">>
HeartRateMaxDefault == <<"1", "0", "0">>
OxygenMinDefault == <<"9", "5">>
TemperatureMinDefault == <<"3", "6", ".", "5">>
TemperatureMaxDefault == <<"3", "7", ".", "5">>

\* a field an InsertThreshold does not carry
Unset == <<"unset">>

ThresholdFields ==
    {"heartRateMin", "heartRateMax", "oxygenMin", "temperatureMin", "temperatureMax"}

ColumnDefault(f) ==
    CASE f = "heartRateMin" -> HeartRateMinDefault
      [] f = "heartRateMax" -> HeartRateMaxDefault
      [] f = "oxygenMin" -> OxygenMinDefault
      [] f = "temperatureMin" -> TemperatureMinDefault
      [] f = "temperatureMax" -> TemperatureMaxDefault

-----------------------------------------------------------------------------
(* server/storage.ts: the storage the server exports *)

\* rows of a table that satisfy a condition, in table order
GetUserThreshold(userId) == SelectSeq(thresholds, LAMBDA row : row.userId = userId)

GetAlert(id) == SelectSeq(alerts, LAMBDA row : row.id = id)

GetUserAlerts(userId) == SelectSeq(alerts, LAMBDA row : row.userId = userId)

\* the row createAlert inserts: id from the serial, timestamp the insertion
\* instant (the model's clock is the insertion count), isRead as given
NewAlertRow(insertAlert) ==
    [id        |-> currentAlertId,
     userId    |-> insertAlert.userId,
     type      |-> insertAlert.type,
     message   |-> insertAlert.message,
     severity  |-> insertAlert.severity,
     isRead    |-> insertAlert.isRead,
     timestamp |-> currentAlertId]

\* the row an insert of insertThreshold creates: unset columns take their
\* defaults (updatedAt, which nothing reads, is left out of the rows)
NewThresholdRow(insertThreshold) ==
    [f \in ThresholdFields \cup {"id", "userId"} |->
        CASE f = "id" -> currentThresholdId
          [] f = "userId" -> insertThreshold.userId
          [] OTHER -> IF insertThreshold[f] = Unset THEN ColumnDefault(f)
                      ELSE insertThreshold[f]]

\* the row an update with insertThreshold leaves: unset columns are not touched
UpdatedThresholdRow(row, insertThreshold) ==
    [f \in DOMAIN row |->
        CASE f = "id" -> row.id
          [] f = "userId" -> insertThreshold.userId
          [] OTHER -> IF insertThreshold[f] = Unset THEN row[f]
                      ELSE insertThreshold[f]]

\* s is a decimal numeral: digits, then optionally "." and digits
IsDecimal(s) ==
    LET n == DigitRun(s)
        rest == SubSeq(s, n + 1, Len(s))
    IN  /\ n > 0
        /\ \/ rest = <<>>
           \/ /\ Len(rest) >= 2
              /\ rest[1] = "."
              /\ DigitRun(Tail(rest)) = Len(rest) - 1

\* what a numeric column of the thresholds table takes: a decimal numeral, or
\* the special value NaN, which it gives back as the string "NaN"; any other
\* text makes the insert or update fail
NumericColumnAccepts(s) == IsDecimal(s) \/ s = <<"N", "a", "N">>

-----------------------------------------------------------------------------
(* server/thingspeak.ts: checkForAlerts.  The message texts are the      *)
(* program's, with its two non-ASCII characters written in ASCII: the      *)
(* degree sign as "deg" and the greater-or-equal sign as ">=".             *)

HeartRateCriticalMargin == 100
OxygenCriticalMargin == 30
TemperatureCriticalMargin == 10

\* the effective bound of one field: the custom value when the user has a row
\* whose field is a truthy string, else the default
EffectiveBound(rows, f, default) ==
    IF rows # <<>> /\ Truthy(rows[1][f]) THEN ParseFloat(rows[1][f]) ELSE default

\* the ranges object built from the user's threshold row (rows: the result of
\* getUserThreshold, empty when the user has no row)
ResolveRanges(rows, defaultRanges) ==
    [heartRate |->
        [min  |-> EffectiveBound(rows, "heartRateMin", defaultRanges.heartRate.min),
         max  |-> EffectiveBound(rows, "heartRateMax", defaultRanges.heartRate.max),
         unit |-> defaultRanges.heartRate.unit],
     oxygen |->
        [min  |-> EffectiveBound(rows, "oxygenMin", defaultRanges.oxygen.min),
         max  |-> defaultRanges.oxygen.max,
         unit |-> defaultRanges.oxygen.unit],
     temperature |->
        [min  |-> EffectiveBound(rows, "temperatureMin", defaultRanges.temperature.min),
         max  |-> EffectiveBound(rows, "temperatureMax", defaultRanges.temperature.max),
         unit |-> defaultRanges.temperature.unit]]

\* mutant: a truthiness test, which drops the value 0 with the missing field
PresentTruthy(field) == field # Undefined /\ field # Num(0)

Present(field) == field # Undefined

\* mutant: the bounds themselves counted as out of range
HeartRateOutOfRangeInclusive(heartRate, ranges) ==
    ~JsGt(heartRate, ranges.heartRate.min) \/ ~JsLt(heartRate, ranges.heartRate.max)

HeartRateOutOfRange(heartRate, ranges) ==
    JsLt(heartRate, ranges.heartRate.min) \/ JsGt(heartRate, ranges.heartRate.max)

\* mutant: the critical margin tested with <= instead of <
HeartRateSeverityInclusive(heartRate, ranges) ==
    IF \/ JsLt(heartRate, JsSub(ranges.heartRate.min, HeartRateCriticalMargin - 1))
       \/ JsGt(heartRate, JsAdd(ranges.heartRate.max, HeartRateCriticalMargin - 1))
    THEN "critical" ELSE "warning"

HeartRateSeverity(heartRate, ranges) ==
    IF \/ JsLt(heartRate, JsSub(ranges.heartRate.min, HeartRateCriticalMargin))
       \/ JsGt(heartRate, JsAdd(ranges.heartRate.max, HeartRateCriticalMargin))
    THEN "critical" ELSE "warning"

\* mutant: the message written with the default bounds, not the ranges used
HeartRateAlertDefaultBounds(userId, heartRate, ranges) ==
    [userId   |-> userId,
     type     |-> "heart-rate",
     message  |-> "Heart rate is " \o NumberToString(heartRate)
                  \o " BPM, outside normal range ("
                  \o NumberToString(VITAL_RANGES.heartRate.min) \o "-"
                  \o NumberToString(VITAL_RANGES.heartRate.max) \o " BPM)",
     severity |-> HeartRateSeverity(heartRate, ranges),
     isRead   |-> FALSE]

HeartRateAlert(userId, heartRate, ranges) ==
    [userId   |-> userId,
     type     |-> "heart-rate",
     message  |-> "Heart rate is " \o NumberToString(heartRate)
                  \o " BPM, outside normal range ("
                  \o NumberToString(ranges.heartRate.min) \o "-"
                  \o NumberToString(ranges.heartRate.max) \o " BPM)",
     severity |-> HeartRateSeverity(heartRate, ranges),
     isRead   |-> FALSE]

\* mutant: the configured oxygen max enforced like the other vitals' max
OxygenOutOfRangeBothSides(oxygen, ranges) ==
    JsLt(oxygen, ranges.oxygen.min) \/ JsGt(oxygen, ranges.oxygen.max)

OxygenOutOfRange(oxygen, ranges) == JsLt(oxygen, ranges.oxygen.min)

\* mutant: the critical margin tested with <= instead of <
OxygenSeverityInclusive(oxygen, ranges) ==
    IF JsLt(oxygen, JsSub(ranges.oxygen.min, OxygenCriticalMargin - 1))
    THEN "critical" ELSE "warning"

OxygenSeverity(oxygen, ranges) ==
    IF JsLt(oxygen, JsSub(ranges.oxygen.min, OxygenCriticalMargin))
    THEN "critical" ELSE "warning"

OxygenAlert(userId, oxygen, ranges) ==
    [userId   |-> userId,
     type     |-> "oxygen",
     message  |-> "Oxygen saturation is " \o NumberToString(oxygen)
                  \o "%, below normal range (>="
                  \o NumberToString(ranges.oxygen.min) \o "%)",
     severity |-> OxygenSeverity(oxygen, ranges),
     isRead   |-> FALSE]

\* mutant: the upper bound forgotten
TemperatureOutOfRangeLowerOnly(temperature, ranges) ==
    JsLt(temperature, ranges.temperature.min)

TemperatureOutOfRange(temperature, ranges) ==
    \/ JsLt(temperature, ranges.temperature.min)
    \/ JsGt(temperature, ranges.temperature.max)

\* mutant: the lower critical margin forgotten
TemperatureSeverityUpperOnly(temperature, ranges) ==
    IF JsGt(temperature, JsAdd(ranges.temperature.max, TemperatureCriticalMargin))
    THEN "critical" ELSE "warning"

TemperatureSeverity(temperature, ranges) ==
    IF \/ JsGt(temperature, JsAdd(ranges.temperature.max, TemperatureCriticalMargin))
       \/ JsLt(temperature, JsSub(ranges.temperature.min, TemperatureCriticalMargin))
    THEN "critical" ELSE "warning"

\* mutant: an evaluator that looks at the store, and escalates when the user
\* already has an unread temperature alert
TemperatureAlertEscalating(userId, temperature, ranges) ==
    [userId   |-> userId,
     type     |-> "temperature",
     message  |-> "Temperature is " \o NumberToString(temperature)
                  \o "degC, outside normal range ("
                  \o NumberToString(ranges.temperature.min) \o "-"
                  \o NumberToString(ranges.temperature.max) \o "degC)",
     severity |-> IF \E i \in DOMAIN alerts : /\ alerts[i].userId = userId
                                               /\ alerts[i].type = "temperature"
                                               /\ ~alerts[i].isRead
                  THEN "critical"
                  ELSE TemperatureSeverity(temperature, ranges),
     isRead   |-> FALSE]

TemperatureAlert(userId, temperature, ranges) ==
    [userId   |-> userId,
     type     |-> "temperature",
     message  |-> "Temperature is " \o NumberToString(temperature)
                  \o "degC, outside normal range ("
                  \o NumberToString(ranges.temperature.min) \o "-"
                  \o NumberToString(ranges.temperature.max) \o "degC)",
     severity |-> TemperatureSeverity(temperature, ranges),
     isRead   |-> FALSE]

-----------------------------------------------------------------------------
(* The state machine *)

\* number of checkForAlerts invocations a behaviour starts
MaxInvocations == 2

Users == {1, 2}
\* request handlers that may run checkForAlerts at the same time
Procs == {1, 2}

NoData == [hasFeeds |-> FALSE, feeds |-> <<>>]
Data(feeds) == [hasFeeds |-> TRUE, feeds |-> feeds]
Reading(f1, f2, f3) == [field1 |-> f1, field2 |-> f2, field3 |-> f3]

\* what the GET /api/vitals/latest handler has answered: nothing yet, the
\* telemetry data (res.json(data), status 200), or status 500 with a message
NoResponse == [status |-> 0, json |-> "none"]
JsonData == [status |-> 200, json |-> "data"]
Status500 == [status |-> 500, json |-> "message"]
\* the answers of the alert routes: the updated alert, or status 404
JsonAlert == [status |-> 200, json |-> "alert"]
Status404 == [status |-> 404, json |-> "message"]
\* the answers of the threshold and device routes
JsonThreshold == [status |-> 200, json |-> "threshold"]
CreatedThreshold == [status |-> 201, json |-> "threshold"]
CreatedDevice == [status |-> 201, json |-> "device"]
Status400 == [status |-> 400, json |-> "message"]
Status403 == [status |-> 403, json |-> "message"]

\* no createOrUpdateThreshold in flight
NoInsert == [userId |-> 0]

\* a request as its route handler sees it: the route, req.user.id, the :id of
\* the path and the body
NoRequest == [route |-> "none", sessionUser |-> 0, id |-> 0, body |-> NoInsert]
Request(route, sessionUser, id, body) ==
    [route |-> route, sessionUser |-> sessionUser, id |-> id, body |-> body]

IdleCall ==
    [pc       |-> "idle",
     userId   |-> 0,
     data     |-> NoData,
     ranges   |-> VITAL_RANGES,
     res      |-> NoResponse,
     insertThreshold   |-> NoInsert, \* the argument of a createOrUpdateThreshold in flight
     existingThreshold |-> <<>>,   \* what its getUserThreshold returned
     alertId  |-> 0,       \* the :id of a PATCH /api/alerts/:id/read
     created  |-> <<>>,    \* history: the rows this invocation inserted
     attempts |-> <<>>]    \* history: the types createAlert was called with

Init ==
    /\ alerts = <<>>
    /\ currentAlertId = 1
    /\ thresholds = <<>>
    /\ currentThresholdId = 1
    /\ call = [p \in Procs |-> IdleCall]
    /\ invocations = 0
    /\ devices = <<>>
    /\ request = [p \in Procs |-> NoRequest]

\* mutant: the insert written twice (a retry after a success)
CreateAlertTwice(p, insertAlert) ==
    /\ alerts' = alerts \o <<NewAlertRow(insertAlert),
                            [NewAlertRow(insertAlert) EXCEPT !.id = @ + 1]>>
    /\ currentAlertId' = currentAlertId + 2
    /\ call' = [call EXCEPT ![p].created = Append(@, NewAlertRow(insertAlert)),
                            ![p].attempts = Append(@, insertAlert.type),
                            ![p].pc = CASE insertAlert.type = "heart-rate" -> "oxygen"
                                        [] insertAlert.type = "oxygen" -> "temperature"
                                        [] OTHER -> "returned",
                            ![p].res = IF insertAlert.type = "temperature"
                                       THEN JsonData ELSE @]

\* mutant: no insert when the user already has an unread alert of the type
CreateAlertDeduplicated(p, insertAlert) ==
    /\ IF \E i \in DOMAIN alerts : /\ alerts[i].userId = insertAlert.userId
                                   /\ alerts[i].type = insertAlert.type
                                   /\ ~alerts[i].isRead
       THEN UNCHANGED <<alerts, currentAlertId>>
       ELSE /\ alerts' = Append(alerts, NewAlertRow(insertAlert))
            /\ currentAlertId' = currentAlertId + 1
    /\ call' = [call EXCEPT ![p].created = Append(@, NewAlertRow(insertAlert)),
                            ![p].attempts = Append(@, insertAlert.type),
                            ![p].pc = CASE insertAlert.type = "heart-rate" -> "oxygen"
                                        [] insertAlert.type = "oxygen" -> "temperature"
                                        [] OTHER -> "returned",
                            ![p].res = IF insertAlert.type = "temperature"
                                       THEN JsonData ELSE @]

\* storage.createAlert, the insert succeeding; after the last section
\* checkForAlerts returns and the handler answers with the data
CreateAlert(p, insertAlert) ==
    /\ alerts' = Append(alerts, NewAlertRow(insertAlert))
    /\ currentAlertId' = currentAlertId + 1
    /\ call' = [call EXCEPT ![p].created = Append(@, NewAlertRow(insertAlert)),
                            ![p].attempts = Append(@, insertAlert.type),
                            ![p].pc = CASE insertAlert.type = "heart-rate" -> "oxygen"
                                        [] insertAlert.type = "oxygen" -> "temperature"
                                        [] OTHER -> "returned",
                            ![p].res = IF insertAlert.type = "temperature"
                                       THEN JsonData ELSE @]

\* a vital that needs no alert: nothing is written
NoAlert(p, next) ==
    /\ call' = [call EXCEPT ![p].pc = next,
                            ![p].res = IF next = "returned" THEN JsonData ELSE @]
    /\ UNCHANGED <<alerts, currentAlertId>>

\* mutant: the length test forgotten
NoFeedsMissingOnly(data) == ~data.hasFeeds

\* the feeds test at the entry of checkForAlerts
NoFeeds(data) == ~data.hasFeeds \/ Len(data.feeds) = 0

\* the invocation of handler p is between its entry and its return or throw
Running(p) == call[p].pc \in {"heartRate", "oxygen", "temperature"}

\* mutant: one evaluation per user at a time, a second one for a user whose
\* evaluation is running returns without evaluating
CheckStartOnePerUser(p, userId, data) ==
    /\ ~Running(p)
    /\ invocations < MaxInvocations
    /\ invocations' = invocations + 1
    /\ call' = [call EXCEPT ![p] =
          IF NoFeeds(data) \/ (\E q \in DOMAIN call :
                                  q # p /\ Running(q) /\ call[q].userId = userId)
          THEN [IdleCall EXCEPT !.pc = "returned", !.userId = userId,
                                !.data = data, !.res = JsonData]
          ELSE [IdleCall EXCEPT !.pc = "heartRate", !.userId = userId,
                                !.data = data,
                                !.ranges = ResolveRanges(GetUserThreshold(userId),
                                                         VITAL_RANGES)]]
    /\ UNCHANGED <<alerts, currentAlertId, thresholds, currentThresholdId, devices, request>>

\* checkForAlerts is entered: the feeds test, then the threshold read and the
\* ranges object
CheckStart(p, userId, data) ==
    /\ ~Running(p)
    /\ invocations < MaxInvocations
    /\ invocations' = invocations + 1
    /\ call' = [call EXCEPT ![p] =
          IF NoFeeds(data)
          THEN [IdleCall EXCEPT !.pc = "returned", !.userId = userId,
                                !.data = data, !.res = JsonData]
          ELSE [IdleCall EXCEPT !.pc = "heartRate", !.userId = userId,
                                !.data = data,
                                !.ranges = ResolveRanges(GetUserThreshold(userId),
                                                         VITAL_RANGES)]]
    /\ UNCHANGED <<alerts, currentAlertId, thresholds, currentThresholdId, devices, request>>

\* mutant: the last reading of the batch taken for the latest
LatestReadingLast(p) == call[p].data.feeds[Len(call[p].data.feeds)]

\* const latestReading = data.feeds[0]
LatestReading(p) == call[p].data.feeds[1]

CheckHeartRate(p) ==
    /\ call[p].pc = "heartRate"
    /\ LET heartRate == LatestReading(p).field1 IN
         IF Present(heartRate) /\ HeartRateOutOfRange(heartRate, call[p].ranges)
         THEN CreateAlert(p, HeartRateAlert(call[p].userId, heartRate, call[p].ranges))
         ELSE NoAlert(p, "oxygen")
    /\ UNCHANGED <<thresholds, currentThresholdId, invocations, devices, request>>

\* mutant: the threshold read again before the oxygen comparison
CheckOxygenRereading(p) ==
    /\ call[p].pc = "oxygen"
    /\ LET oxygen == LatestReading(p).field2
           ranges == ResolveRanges(GetUserThreshold(call[p].userId), VITAL_RANGES)
       IN  IF Present(oxygen) /\ OxygenOutOfRange(oxygen, ranges)
           THEN CreateAlert(p, OxygenAlert(call[p].userId, oxygen, ranges))
           ELSE NoAlert(p, "temperature")
    /\ UNCHANGED <<thresholds, currentThresholdId, invocations, devices, request>>

CheckOxygen(p) ==
    /\ call[p].pc = "oxygen"
    /\ LET oxygen == LatestReading(p).field2 IN
         IF Present(oxygen) /\ OxygenOutOfRange(oxygen, call[p].ranges)
         THEN CreateAlert(p, OxygenAlert(call[p].userId, oxygen, call[p].ranges))
         ELSE NoAlert(p, "temperature")
    /\ UNCHANGED <<thresholds, currentThresholdId, invocations, devices, request>>

CheckTemperature(p) ==
    /\ call[p].pc = "temperature"
    /\ LET temperature == LatestReading(p).field3 IN
         IF Present(temperature) /\ TemperatureOutOfRange(temperature, call[p].ranges)
         THEN CreateAlert(p, TemperatureAlert(call[p].userId, temperature, call[p].ranges))
         ELSE NoAlert(p, "returned")
    /\ UNCHANGED <<thresholds, currentThresholdId, invocations, devices, request>>

\* the vital the invocation is at is out of range, so createAlert is its next call
AlertDue(p) ==
    \/ /\ call[p].pc = "heartRate"
       /\ Present(LatestReading(p).field1)
       /\ HeartRateOutOfRange(LatestReading(p).field1, call[p].ranges)
    \/ /\ call[p].pc = "oxygen"
       /\ Present(LatestReading(p).field2)
       /\ OxygenOutOfRange(LatestReading(p).field2, call[p].ranges)
    \/ /\ call[p].pc = "temperature"
       /\ Present(LatestReading(p).field3)
       /\ TemperatureOutOfRange(LatestReading(p).field3, call[p].ranges)

DueType(p) ==
    CASE call[p].pc = "heartRate" -> "heart-rate"
      [] call[p].pc = "oxygen" -> "oxygen"
      [] OTHER -> "temperature"

\* mutant: the rejection caught and logged inside checkForAlerts, which goes
\* on with the next vital
CreateAlertFailsCaught(p) ==
    /\ AlertDue(p)
    /\ call' = [call EXCEPT ![p].pc = CASE call[p].pc = "heartRate" -> "oxygen"
                                        [] call[p].pc = "oxygen" -> "temperature"
                                        [] OTHER -> "returned",
                            ![p].res = IF call[p].pc = "temperature"
                                       THEN JsonData ELSE @,
                            ![p].attempts = Append(@, DueType(p))]
    /\ UNCHANGED <<alerts, currentAlertId, thresholds, currentThresholdId, invocations, devices, request>>

\* mutant: the invocation's inserts undone when one is rejected, as in one
\* transaction
CreateAlertFailsRollback(p) ==
    /\ AlertDue(p)
    /\ alerts' = SelectSeq(alerts, LAMBDA row :
                      \A i \in DOMAIN call[p].created : call[p].created[i] # row)
    /\ call' = [call EXCEPT ![p].pc = "threw",
                            ![p].res = Status500,
                            ![p].attempts = Append(@, DueType(p))]
    /\ UNCHANGED <<currentAlertId, thresholds, currentThresholdId, invocations, devices, request>>

\* storage.createAlert rejects: nothing in checkForAlerts catches it, and the
\* handler's catch answers with status 500
CreateAlertFails(p) ==
    /\ AlertDue(p)
    /\ call' = [call EXCEPT ![p].pc = "threw",
                            ![p].res = Status500,
                            ![p].attempts = Append(@, DueType(p))]
    /\ UNCHANGED <<alerts, currentAlertId, thresholds, currentThresholdId, invocations, devices, request>>

\* mutant: the flag flipped instead of set
MarkAlertAsReadToggle(id) ==
    /\ alerts' = [i \in DOMAIN alerts |->
                    IF alerts[i].id = id THEN [alerts[i] EXCEPT !.isRead = ~@]
                    ELSE alerts[i]]
    /\ UNCHANGED <<currentAlertId, thresholds, currentThresholdId, call, invocations, devices, request>>

\* mutant: the update without its where clause
MarkAlertAsReadEveryRow(id) ==
    /\ alerts' = [i \in DOMAIN alerts |-> [alerts[i] EXCEPT !.isRead = TRUE]]
    /\ UNCHANGED <<currentAlertId, thresholds, currentThresholdId, call, invocations, devices, request>>

\* storage.markAlertAsRead: the update of the row with the id; no row with
\* the id leaves the table as it is (the method then throws)
MarkAlertAsRead(id) ==
    /\ alerts' = [i \in DOMAIN alerts |->
                    IF alerts[i].id = id THEN [alerts[i] EXCEPT !.isRead = TRUE]
                    ELSE alerts[i]]
    /\ UNCHANGED <<currentAlertId, thresholds, currentThresholdId, call, invocations, devices, request>>

\* mutant: an insert whether or not the user has a row
CreateOrUpdateThresholdInsertOnly(insertThreshold) ==
    /\ thresholds' = Append(thresholds, NewThresholdRow(insertThreshold))
    /\ currentThresholdId' = currentThresholdId + 1
    /\ UNCHANGED <<alerts, currentAlertId, call, invocations, devices, request>>

\* storage.createOrUpdateThreshold, its read and its write as one step
CreateOrUpdateThreshold(insertThreshold) ==
    /\ LET existingThreshold == GetUserThreshold(insertThreshold.userId) IN
         IF existingThreshold # <<>>
         THEN /\ thresholds' = [i \in DOMAIN thresholds |->
                    IF thresholds[i].id = existingThreshold[1].id
                    THEN UpdatedThresholdRow(thresholds[i], insertThreshold)
                    ELSE thresholds[i]]
              /\ UNCHANGED currentThresholdId
         ELSE /\ thresholds' = Append(thresholds, NewThresholdRow(insertThreshold))
              /\ currentThresholdId' = currentThresholdId + 1
    /\ UNCHANGED <<alerts, currentAlertId, call, invocations, devices, request>>

\* handler p serves no request
Free(p) == ~Running(p) /\ call[p].pc \notin {"thresholdRead", "fetched"}

\* mutant: the existence of the alert tested, its owner not
PatchAlertReadAnyOwner(p, sessionUser, alertId) ==
    /\ Free(p)
    /\ request' = [request EXCEPT ![p] =
          Request("PATCH /api/alerts/:id/read", sessionUser, alertId, NoInsert)]
    /\ IF GetAlert(alertId) = <<>>
       THEN /\ call' = [call EXCEPT ![p] =
                  [IdleCall EXCEPT !.pc = "responded", !.userId = sessionUser,
                                   !.alertId = alertId, !.res = Status404]]
            /\ UNCHANGED alerts
       ELSE /\ alerts' = [i \in DOMAIN alerts |->
                  IF alerts[i].id = alertId THEN [alerts[i] EXCEPT !.isRead = TRUE]
                  ELSE alerts[i]]
            /\ call' = [call EXCEPT ![p] =
                  [IdleCall EXCEPT !.pc = "responded", !.userId = sessionUser,
                                   !.alertId = alertId, !.res = JsonAlert]]
    /\ UNCHANGED <<currentAlertId, thresholds, currentThresholdId, invocations, devices>>

\* PATCH /api/alerts/:id/read by the session user: 404 unless the alert
\* exists and is the session user's, else markAlertAsRead and the alert
PatchAlertRead(p, sessionUser, alertId) ==
    /\ Free(p)
    /\ request' = [request EXCEPT ![p] =
          Request("PATCH /api/alerts/:id/read", sessionUser, alertId, NoInsert)]
    /\ LET alert == GetAlert(alertId) IN
         IF alert = <<>> \/ alert[1].userId # sessionUser
         THEN /\ call' = [call EXCEPT ![p] =
                    [IdleCall EXCEPT !.pc = "responded", !.userId = sessionUser,
                                     !.alertId = alertId, !.res = Status404]]
              /\ UNCHANGED alerts
         ELSE /\ alerts' = [i \in DOMAIN alerts |->
                    IF alerts[i].id = alertId THEN [alerts[i] EXCEPT !.isRead = TRUE]
                    ELSE alerts[i]]
              /\ call' = [call EXCEPT ![p] =
                    [IdleCall EXCEPT !.pc = "responded", !.userId = sessionUser,
                                     !.alertId = alertId, !.res = JsonAlert]]
    /\ UNCHANGED <<currentAlertId, thresholds, currentThresholdId, invocations, devices>>

\* what the server answers to a request no route of registerRoutes matches:
\* the handlers behind them are not part of this model
UnmatchedResponses == {Status404, [status |-> 200, json |-> "page"]}

\* PATCH /api/alerts/read-all: "read-all" is no /api/alerts/:id/read path and
\* no other route matches, so no handler of registerRoutes runs
PatchApiAlertsReadAll(p, sessionUser, res) ==
    /\ Free(p)
    /\ request' = [request EXCEPT ![p] =
          Request("PATCH /api/alerts/read-all", sessionUser, 0, NoInsert)]
    /\ call' = [call EXCEPT ![p] =
          [IdleCall EXCEPT !.pc = "responded", !.res = res]]
    /\ UNCHANGED <<alerts, currentAlertId, thresholds, currentThresholdId,
                   invocations, devices>>

\* number of threshold rows after which no createOrUpdateThreshold is begun
MaxThresholdRows == 2

\* createOrUpdateThreshold up to its first await: the row of the user is read
ThresholdRead(p, insertThreshold) ==
    /\ ~Running(p)
    /\ call[p].pc # "thresholdRead"
    /\ Len(thresholds) < MaxThresholdRows
    /\ call' = [call EXCEPT ![p] =
          [IdleCall EXCEPT !.pc = "thresholdRead",
                           !.userId = insertThreshold.userId,
                           !.insertThreshold = insertThreshold,
                           !.existingThreshold =
                               GetUserThreshold(insertThreshold.userId)]]
    /\ UNCHANGED <<alerts, currentAlertId, thresholds, currentThresholdId, invocations, devices, request>>

\* createOrUpdateThreshold after the read: the update of the row that was
\* read, by its id, or the insert of a new row
ThresholdWrite(p) ==
    /\ call[p].pc = "thresholdRead"
    /\ LET existingThreshold == call[p].existingThreshold
           insertThreshold == call[p].insertThreshold
       IN  IF existingThreshold # <<>>
           THEN /\ thresholds' = [i \in DOMAIN thresholds |->
                      IF thresholds[i].id = existingThreshold[1].id
                      THEN UpdatedThresholdRow(thresholds[i], insertThreshold)
                      ELSE thresholds[i]]
                /\ UNCHANGED currentThresholdId
           ELSE /\ thresholds' = Append(thresholds, NewThresholdRow(insertThreshold))
                /\ currentThresholdId' = currentThresholdId + 1
    /\ call' = [call EXCEPT ![p].pc = "thresholdWritten"]
    /\ UNCHANGED <<alerts, currentAlertId, invocations, devices, request>>

\* the accounts: the two patients who poll their vitals, and a caregiver.
\* users.patientId: user 1 names the caregiver, user 2 names user 1 (who is
\* no caregiver), the caregiver names nobody
Caregiver == 3
Accounts == Users \cup {Caregiver}
Role(account) == IF account = Caregiver THEN "caregiver" ELSE "patient"
PatientId(account) == CASE account = 1 -> Caregiver [] account = 2 -> 1 [] OTHER -> 0
\* storage.getCaregiverPatients: the users whose patientId is the caregiver's id
GetCaregiverPatients(account) == {u \in Accounts : PatientId(u) = account}

\* the body of a threshold request is valid for insertThresholdSchema (its
\* five bounds are optional strings) and the table takes its values
ThresholdAccepted(body) ==
    \A f \in ThresholdFields : body[f] = Unset \/ NumericColumnAccepts(body[f])

\* POST /api/thresholds by the session user: userId is the session's, whatever
\* the body carries; a request that fails (status 400) changes nothing
PostThresholds(sessionUser, body) ==
    /\ ThresholdAccepted(body)
    /\ CreateOrUpdateThreshold([body EXCEPT !.userId = sessionUser])

\* POST /api/patients/:id/thresholds by a caregiver for one of their patients
PostPatientThresholds(sessionUser, patientId, body) ==
    /\ Role(sessionUser) = "caregiver"
    /\ patientId \in GetCaregiverPatients(sessionUser)
    /\ ThresholdAccepted(body)
    /\ CreateOrUpdateThreshold([body EXCEPT !.userId = patientId])

\* the call record of a handler that has answered: userId is the user id it
\* gave to the storage (0 when it answered before any storage call)
Responded(userId, res) ==
    [IdleCall EXCEPT !.pc = "responded", !.userId = userId, !.res = res]

\* the thresholds table after storage.createOrUpdateThreshold(insertThreshold)
Upserted(insertThreshold) ==
    LET existingThreshold == GetUserThreshold(insertThreshold.userId) IN
      IF existingThreshold # <<>>
      THEN [i \in DOMAIN thresholds |->
              IF thresholds[i].id = existingThreshold[1].id
              THEN UpdatedThresholdRow(thresholds[i], insertThreshold)
              ELSE thresholds[i]]
      ELSE Append(thresholds, NewThresholdRow(insertThreshold))

\* GET /api/thresholds: the row of the session user, or the defaults
GetApiThresholds(p, sessionUser) ==
    /\ Free(p)
    /\ request' = [request EXCEPT ![p] =
          Request("GET /api/thresholds", sessionUser, 0, NoInsert)]
    /\ call' = [call EXCEPT ![p] = Responded(sessionUser, JsonThreshold)]
    /\ UNCHANGED <<alerts, currentAlertId, thresholds, currentThresholdId,
                   invocations, devices>>

\* mutant: the userId of the body kept
PostApiThresholdsBodyUser(p, sessionUser, body) ==
    /\ Free(p)
    /\ request' = [request EXCEPT ![p] =
          Request("POST /api/thresholds", sessionUser, 0, body)]
    /\ IF ThresholdAccepted(body) /\ body.userId \in Accounts
       THEN /\ thresholds' = Upserted(body)
            /\ currentThresholdId' = currentThresholdId + Len(thresholds') - Len(thresholds)
            /\ call' = [call EXCEPT ![p] = Responded(body.userId, CreatedThreshold)]
       ELSE /\ call' = [call EXCEPT ![p] = Responded(0, Status400)]
            /\ UNCHANGED <<thresholds, currentThresholdId>>
    /\ UNCHANGED <<alerts, currentAlertId, invocations, devices>>

\* POST /api/thresholds, the whole handler: the body with userId set to the
\* session user's, validated and upserted (201), or status 400
PostApiThresholds(p, sessionUser, body) ==
    /\ Free(p)
    /\ request' = [request EXCEPT ![p] =
          Request("POST /api/thresholds", sessionUser, 0, body)]
    /\ LET thresholdData == [body EXCEPT !.userId = sessionUser] IN
         IF ThresholdAccepted(thresholdData)
         THEN /\ thresholds' = Upserted(thresholdData)
              /\ currentThresholdId' =
                     currentThresholdId + Len(thresholds') - Len(thresholds)
              /\ call' = [call EXCEPT ![p] = Responded(sessionUser, CreatedThreshold)]
         ELSE /\ call' = [call EXCEPT ![p] = Responded(0, Status400)]
              /\ UNCHANGED <<thresholds, currentThresholdId>>
    /\ UNCHANGED <<alerts, currentAlertId, invocations, devices>>

\* the two tests of the /api/patients/:id/... routes
IsPatientOfCaregiver(sessionUser, patientId) ==
    /\ Role(sessionUser) = "caregiver"
    /\ patientId \in GetCaregiverPatients(sessionUser)

\* GET /api/patients/:id/thresholds
GetApiPatientThresholds(p, sessionUser, patientId) ==
    /\ Free(p)
    /\ request' = [request EXCEPT ![p] =
          Request("GET /api/patients/:id/thresholds", sessionUser, patientId, NoInsert)]
    /\ call' = [call EXCEPT ![p] =
          IF IsPatientOfCaregiver(sessionUser, patientId)
          THEN Responded(patientId, JsonThreshold)
          ELSE Responded(0, Status403)]
    /\ UNCHANGED <<alerts, currentAlertId, thresholds, currentThresholdId,
                   invocations, devices>>

\* mutant: the role tested, the assignment of the patient not
PostApiPatientThresholdsAnyPatient(p, sessionUser, patientId, body) ==
    /\ Free(p)
    /\ request' = [request EXCEPT ![p] =
          Request("POST /api/patients/:id/thresholds", sessionUser, patientId, body)]
    /\ LET thresholdData == [body EXCEPT !.userId = patientId] IN
         IF Role(sessionUser) # "caregiver"
         THEN /\ call' = [call EXCEPT ![p] = Responded(0, Status403)]
              /\ UNCHANGED <<thresholds, currentThresholdId>>
         ELSE IF ThresholdAccepted(thresholdData)
         THEN /\ thresholds' = Upserted(thresholdData)
              /\ currentThresholdId' =
                     currentThresholdId + Len(thresholds') - Len(thresholds)
              /\ call' = [call EXCEPT ![p] = Responded(patientId, CreatedThreshold)]
         ELSE /\ call' = [call EXCEPT ![p] = Responded(0, Status400)]
              /\ UNCHANGED <<thresholds, currentThresholdId>>
    /\ UNCHANGED <<alerts, currentAlertId, invocations, devices>>

\* POST /api/patients/:id/thresholds, the whole handler: 403 unless the
\* session user is a caregiver of the patient, then as POST /api/thresholds
\* with userId set to the patient's
PostApiPatientThresholds(p, sessionUser, patientId, body) ==
    /\ Free(p)
    /\ request' = [request EXCEPT ![p] =
          Request("POST /api/patients/:id/thresholds", sessionUser, patientId, body)]
    /\ LET thresholdData == [body EXCEPT !.userId = patientId] IN
         IF ~IsPatientOfCaregiver(sessionUser, patientId)
         THEN /\ call' = [call EXCEPT ![p] = Responded(0, Status403)]
              /\ UNCHANGED <<thresholds, currentThresholdId>>
         ELSE IF ThresholdAccepted(thresholdData)
         THEN /\ thresholds' = Upserted(thresholdData)
              /\ currentThresholdId' =
                     currentThresholdId + Len(thresholds') - Len(thresholds)
              /\ call' = [call EXCEPT ![p] = Responded(patientId, CreatedThreshold)]
         ELSE /\ call' = [call EXCEPT ![p] = Responded(0, Status400)]
              /\ UNCHANGED <<thresholds, currentThresholdId>>
    /\ UNCHANGED <<alerts, currentAlertId, invocations, devices>>

\* number of device rows after which no device is registered
MaxDevices == 2

GetUserDevices(userId) == SelectSeq(devices, LAMBDA row : row.userId = userId)

\* the body of a device request is valid for insertDeviceSchema (userId a
\* number) and the table takes it (user_id references users.id)
DeviceAccepted(body) == body.userId \in Accounts

\* POST /api/devices, the whole handler: the body validated and inserted as
\* it is (201), or status 400
PostApiDevices(p, sessionUser, body) ==
    /\ Free(p)
    /\ Len(devices) < MaxDevices
    /\ request' = [request EXCEPT ![p] =
          Request("POST /api/devices", sessionUser, 0, body)]
    /\ IF DeviceAccepted(body)
       THEN /\ devices' = Append(devices, [id |-> Len(devices) + 1,
                                           userId |-> body.userId,
                                           channelId |-> body.channelId])
            /\ call' = [call EXCEPT ![p] = Responded(body.userId, CreatedDevice)]
       ELSE /\ call' = [call EXCEPT ![p] = Responded(0, Status400)]
            /\ UNCHANGED devices
    /\ UNCHANGED <<alerts, currentAlertId, thresholds, currentThresholdId, invocations>>

\* what getLatestData(channelId, readApiKey) resolves to: each channel holds
\* one reading
ChannelData(channelId) ==
    IF channelId = 1
    THEN Data(<<Reading(Num(1200), Undefined, Num(382))>>)
    ELSE Data(<<Reading(Undefined, Num(930), Undefined)>>)

\* GET /api/vitals/latest up to the call of checkForAlerts: 404 without a
\* device, 500 when getLatestData throws (ok is FALSE), else the data of
\* the first device's channel is at hand
GetApiVitalsLatest(p, sessionUser, ok) ==
    /\ Free(p)
    /\ request' = [request EXCEPT ![p] =
          Request("GET /api/vitals/latest", sessionUser, 0, NoInsert)]
    /\ LET userDevices == GetUserDevices(sessionUser) IN
         call' = [call EXCEPT ![p] =
            IF userDevices = <<>> THEN Responded(sessionUser, Status404)
            ELSE IF ~ok THEN Responded(sessionUser, Status500)
            ELSE [IdleCall EXCEPT !.pc = "fetched", !.userId = sessionUser,
                                  !.data = ChannelData(userDevices[1].channelId)]]
    /\ UNCHANGED <<alerts, currentAlertId, thresholds, currentThresholdId,
                   invocations, devices>>

\* GET /api/vitals/latest, line 73: await checkForAlerts(req.user.id, data)
GetApiVitalsLatestCheck(p) ==
    /\ call[p].pc = "fetched"
    /\ CheckStart(p, request[p].sessionUser, call[p].data)

\* mutant: the caregiver's route evaluating the data it fetched
GetApiPatientVitalsLatestChecking(p, sessionUser, patientId, ok) ==
    /\ Free(p)
    /\ request' = [request EXCEPT ![p] =
          Request("GET /api/patients/:id/vitals/latest", sessionUser, patientId, NoInsert)]
    /\ LET userDevices == GetUserDevices(patientId) IN
         call' = [call EXCEPT ![p] =
            IF ~IsPatientOfCaregiver(sessionUser, patientId)
            THEN Responded(0, Status403)
            ELSE IF userDevices = <<>> THEN Responded(patientId, Status404)
            ELSE IF ~ok THEN Responded(patientId, Status500)
            ELSE [IdleCall EXCEPT !.pc = "fetched", !.userId = patientId,
                                  !.data = ChannelData(userDevices[1].channelId)]]
    /\ UNCHANGED <<alerts, currentAlertId, thresholds, currentThresholdId,
                   invocations, devices>>

\* GET /api/patients/:id/vitals/latest, the whole handler: 403 unless the
\* session user is a caregiver of the patient, 404 without a device of the
\* patient, 500 when getLatestData throws, else the data; no checkForAlerts
GetApiPatientVitalsLatest(p, sessionUser, patientId, ok) ==
    /\ Free(p)
    /\ request' = [request EXCEPT ![p] =
          Request("GET /api/patients/:id/vitals/latest", sessionUser, patientId, NoInsert)]
    /\ LET userDevices == GetUserDevices(patientId) IN
         call' = [call EXCEPT ![p] =
            IF ~IsPatientOfCaregiver(sessionUser, patientId)
            THEN Responded(0, Status403)
            ELSE IF userDevices = <<>> THEN Responded(patientId, Status404)
            ELSE IF ~ok THEN Responded(patientId, Status500)
            ELSE [Responded(patientId, JsonData) EXCEPT
                     !.data = ChannelData(userDevices[1].channelId)]]
    /\ UNCHANGED <<alerts, currentAlertId, thresholds, currentThresholdId,
                   invocations, devices>>

-----------------------------------------------------------------------------
(* Inputs of the whole system *)

InsertThreshold(userId, hrMin, hrMax, oxMin, tMin, tMax) ==
    [userId |-> userId, heartRateMin |-> hrMin, heartRateMax |-> hrMax,
     oxygenMin |-> oxMin, temperatureMin |-> tMin, temperatureMax |-> tMax]

\* a full customisation, and one that sets the oxygen floor alone
ThresholdInputs ==
    {InsertThreshold(1, <<"5", "0">>, <<"1", "1", "0">>, <<"9", "0">>,
                     <<"3", "6">>, <<"3", "8">>),
     InsertThreshold(2, Unset, Unset, <<"9", "2", ".", "5">>, Unset, Unset)}

\* the reading of the spec's scenario, a normal one, and a partial one
ScenarioReading == Reading(Num(1200), Num(900), Num(382))
NormalReading == Reading(Num(720), Num(980), Num(368))
PartialReading == Reading(Undefined, Num(930), Undefined)

Batches ==
    {NoData, Data(<<>>), Data(<<ScenarioReading>>),
     Data(<<NormalReading, ScenarioReading>>)}

Next ==
    \/ \E p \in Procs, u \in Users, data \in Batches :
          \* handlers are interchangeable: the second serves while the first is busy
          /\ p = 1 \/ Running(1)
          /\ CheckStart(p, u, data)
    \/ \E p \in Procs : CheckHeartRate(p)
    \/ \E p \in Procs : CheckOxygen(p)
    \/ \E p \in Procs : CheckTemperature(p)
    \/ \E p \in Procs : CreateAlertFails(p)
    \/ \E t \in ThresholdInputs : CreateOrUpdateThreshold(t)

Spec == Init /\ [][Next]_vars

-----------------------------------------------------------------------------
(* One evaluation over a wide range of readings.  The values, in tenths,  *)
(* sit on and around every bound and every critical margin of the ranges   *)
(* the thresholds above resolve to: 60-100 / 95 / 36.5-37.5 (defaults),    *)
(* 50-110 / 90 / 36-38 (user 1's customisation) and 92.5 (user 2's floor). *)

HeartRateValues ==
    {Undefined} \cup
    {Num(n) : n \in {0, 390, 400, 410, 490, 500, 510, 600, 1000,
                     1090, 1100, 1110, 1190, 1200, 1210}}

OxygenValues ==
    {Undefined} \cup
    {Num(n) : n \in {0, 870, 871, 895, 900, 919, 920, 921, 949, 950, 1010}}

TemperatureValues ==
    {Undefined} \cup
    {Num(n) : n \in {0, 349, 350, 355, 360, 365, 375, 380, 382, 385, 390, 391, 395}}

EvalBatches ==
    {Data(<<Reading(f1, f2, f3)>>) :
        f1 \in HeartRateValues, f2 \in OxygenValues, f3 \in TemperatureValues}

EvalNext ==
    \/ /\ invocations = 0
       /\ \E t \in ThresholdInputs : CreateOrUpdateThreshold(t)
    \/ /\ invocations = 0
       /\ \E u \in Users, data \in EvalBatches : CheckStart(1, u, data)
    \/ CheckHeartRate(1)
    \/ CheckOxygen(1)
    \/ CheckTemperature(1)
    \/ CreateAlertFails(1)

SpecEval == Init /\ [][EvalNext]_vars

-----------------------------------------------------------------------------
(* The same poll again and again: one handler, the thresholds settled      *)
(* before the first poll, every later invocation with the user and the     *)
(* batch of the first; alerts are marked as read in between.               *)

RepeatBatches == Batches \cup {Data(<<PartialReading>>)}

RepeatNext ==
    \/ /\ invocations = 0
       /\ \E t \in ThresholdInputs : CreateOrUpdateThreshold(t)
    \/ \E u \in Users, data \in RepeatBatches :
          /\ invocations = 0 \/ (u = call[1].userId /\ data = call[1].data)
          /\ CheckStart(1, u, data)
    \/ CheckHeartRate(1)
    \/ CheckOxygen(1)
    \/ CheckTemperature(1)
    \/ \E id \in 1..currentAlertId : MarkAlertAsRead(id)

SpecRepeat == Init /\ [][RepeatNext]_vars

-----------------------------------------------------------------------------
(* Threshold requests of every kind, then one evaluation.  The bodies are   *)
(* what the threshold form can send (any non-empty strings): the two       *)
(* customisations above, a heart-rate minimum that is not a number, one     *)
(* above every maximum, a temperature maximum below the minimum, and text   *)
(* the table refuses.                                                       *)

ThresholdBodies ==
    {InsertThreshold(0, <<"5", "0">>, <<"1", "1", "0">>, <<"9", "0">>,
                     <<"3", "6">>, <<"3", "8">>),
     InsertThreshold(0, Unset, Unset, <<"9", "2", ".", "5">>, Unset, Unset),
     InsertThreshold(0, <<"N", "a", "N">>, Unset, Unset, Unset, Unset),
     InsertThreshold(0, <<"1", "2", "0">>, Unset, Unset, Unset, Unset),
     InsertThreshold(0, Unset, Unset, Unset, Unset, <<"3", "6">>),
     InsertThreshold(0, <<"a", "b", "c">>, Unset, Unset, Unset, Unset)}

\* a reading below every default minimum and above every critical margin
LowReading == Reading(Num(550), Num(930), Num(362))

ThresholdBatches ==
    {Data(<<LowReading>>), Data(<<ScenarioReading>>), Data(<<NormalReading>>)}

ThresholdNext ==
    \/ /\ invocations = 0
       /\ \E u \in Users, body \in ThresholdBodies : PostThresholds(u, body)
    \/ /\ invocations = 0
       /\ \E c \in Accounts, id \in Users, body \in ThresholdBodies :
              PostPatientThresholds(c, id, body)
    \/ /\ invocations = 0
       /\ \E u \in Users, data \in ThresholdBatches : CheckStart(1, u, data)
    \/ CheckHeartRate(1)
    \/ CheckOxygen(1)
    \/ CheckTemperature(1)

SpecThresholds == Init /\ [][ThresholdNext]_vars

-----------------------------------------------------------------------------
(* Batches of one and of two readings that begin alike or end alike,       *)
(* polled by two handlers once the thresholds are settled.                 *)

PollBatches ==
    {Data(<<ScenarioReading>>), Data(<<ScenarioReading, NormalReading>>),
     Data(<<NormalReading>>), Data(<<NormalReading, ScenarioReading>>),
     Data(<<NormalReading, LowReading, ScenarioReading>>)}

BatchNext ==
    \/ /\ invocations = 0
       /\ \E t \in ThresholdInputs : CreateOrUpdateThreshold(t)
    \/ \E p \in Procs, u \in Users, data \in PollBatches :
          /\ p = 1 \/ Running(1)
          /\ CheckStart(p, u, data)
    \/ \E p \in Procs : CheckHeartRate(p)
    \/ \E p \in Procs : CheckOxygen(p)
    \/ \E p \in Procs : CheckTemperature(p)

SpecBatch == Init /\ [][BatchNext]_vars

-----------------------------------------------------------------------------
(* The alert routes: handler 1 polls the vitals of the patients, handler 2 *)
(* serves the requests on alerts of every account.                          *)

\* a reading without an oxygen value
NoOxygenReading == Reading(Num(1200), Undefined, Num(382))

AlertBatches == {Data(<<NoOxygenReading>>), Data(<<PartialReading>>)}

AlertsNext ==
    \/ \E u \in Users, data \in AlertBatches : CheckStart(1, u, data)
    \/ CheckHeartRate(1)
    \/ CheckOxygen(1)
    \/ CheckTemperature(1)
    \/ \E u \in Accounts, id \in 1..currentAlertId : PatchAlertRead(2, u, id)
    \/ \E u \in Accounts, res \in UnmatchedResponses : PatchApiAlertsReadAll(2, u, res)

SpecAlerts == Init /\ [][AlertsNext]_vars

-----------------------------------------------------------------------------
(* The routes on thresholds and vitals, asked by every account for every   *)
(* account and served one request at a time.  Each patient registers one   *)
(* channel of their own.                                                    *)

\* a body that carries the userId of patient 2, and one that is refused
AccessBodies ==
    {InsertThreshold(2, <<"5", "0">>, <<"1", "1", "0">>, <<"9", "0">>,
                     <<"3", "6">>, <<"3", "8">>),
     InsertThreshold(1, <<"a", "b", "c">>, Unset, Unset, Unset, Unset)}

AccessNext ==
    \/ \E u \in Users :
          /\ GetUserDevices(u) = <<>>
          /\ PostApiDevices(1, u, [userId |-> u, channelId |-> u])
    \/ \E u \in Users, ok \in BOOLEAN : GetApiVitalsLatest(1, u, ok)
    \/ GetApiVitalsLatestCheck(1)
    \/ CheckHeartRate(1)
    \/ CheckOxygen(1)
    \/ CheckTemperature(1)
    \/ \E u \in Accounts : GetApiThresholds(1, u)
    \/ \E u \in Users, body \in AccessBodies : PostApiThresholds(1, u, body)
    \/ \E u \in Accounts, id \in Accounts : GetApiPatientThresholds(1, u, id)
    \/ \E u \in Accounts, id \in Accounts, body \in AccessBodies :
          PostApiPatientThresholds(1, u, id, body)
    \/ \E u \in Accounts, id \in Accounts, ok \in BOOLEAN :
          GetApiPatientVitalsLatest(1, u, id, ok)

SpecAccess == Init /\ [][AccessNext]_vars

-----------------------------------------------------------------------------
(* Devices registered with any userId in the body, and the vitals routes.  *)
(* Each patient registers the channel they own (channel 1 is patient 1's)  *)
(* and names a patient, or nobody, as its user; handler 1 serves the polls, *)
(* handler 2 the other requests and the polls that overlap one.            *)

DeviceBodies(sessionUser) ==
    {[userId |-> u, channelId |-> sessionUser] : u \in Users \cup {0}}

DevicesNext ==
    \/ \E u \in Users : \E body \in DeviceBodies(u) : PostApiDevices(2, u, body)
    \/ \E p \in Procs, u \in Users, ok \in BOOLEAN :
          /\ p = 1 \/ ~Free(1)
          /\ GetApiVitalsLatest(p, u, ok)
    \/ \E p \in Procs : GetApiVitalsLatestCheck(p)
    \/ \E p \in Procs : CheckHeartRate(p)
    \/ \E p \in Procs : CheckOxygen(p)
    \/ \E p \in Procs : CheckTemperature(p)
    \/ \E u \in Accounts, id \in Users, ok \in BOOLEAN :
          GetApiPatientVitalsLatest(2, u, id, ok)

SpecDevices == Init /\ [][DevicesNext]_vars

-----------------------------------------------------------------------------
(* Two handlers in createOrUpdateThreshold at the same time, each between  *)
(* its read and its write.                                                  *)

UpsertInputs ==
    ThresholdInputs \cup
    {InsertThreshold(1, Unset, Unset, <<"9", "2", ".", "5">>, Unset, Unset)}

UpsertNext ==
    \/ \E p \in Procs, t \in UpsertInputs : ThresholdRead(p, t)
    \/ \E p \in Procs : ThresholdWrite(p)

SpecUpsert == Init /\ [][UpsertNext]_vars

-----------------------------------------------------------------------------
(* Properties.  What an invocation has done is read from its history:      *)
(* created (the rows it inserted) and attempts (its createAlert calls).    *)

OfType(rows, type) == SelectSeq(rows, LAMBDA row : row.type = type)

\* the invocation of p evaluates a reading
Evaluating(p) == call[p].pc # "idle" /\ call[p].data.feeds # <<>>

\* the invocation of p is past its heart-rate, oxygen, temperature section
\* without a throw in it
PastHeartRate(p) ==
    Evaluating(p) /\ call[p].pc \in {"oxygen", "temperature", "returned"}
PastOxygen(p) == Evaluating(p) /\ call[p].pc \in {"temperature", "returned"}
PastTemperature(p) == Evaluating(p) /\ call[p].pc = "returned"

\* C1: once the heart-rate section is done, for a present heart rate v and
\* an effective range min <= max, there is a heart-rate alert (one, and it
\* is in the alerts table) exactly when v < min or v > max, and its severity
\* is critical exactly when v < min - 10 or v > max + 10, else warning.
C1_HeartRateRule ==
    \A p \in Procs :
        LET f == LatestReading(p).field1
            r == call[p].ranges.heartRate
            hr == OfType(call[p].created, "heart-rate")
        IN  (PastHeartRate(p) /\ IsNum(f) /\ IsNum(r.min) /\ IsNum(r.max)
                /\ r.min.v <= r.max.v)
            => /\ Len(hr) <= 1
               /\ Len(hr) = 1 <=> (f.v < r.min.v \/ f.v > r.max.v)
               /\ Len(hr) = 1 =>
                    /\ hr[1].severity =
                         IF f.v < r.min.v - 100 \/ f.v > r.max.v + 100
                         THEN "critical" ELSE "warning"
                    /\ f.v \in {r.min.v - 110, r.max.v + 110}
                         => hr[1].severity = "critical"
                    /\ f.v \in {r.min.v - 90, r.max.v + 90}
                         => hr[1].severity = "warning"
                    /\ \E i \in DOMAIN alerts : alerts[i] = hr[1]

\* C1 happens: with user 1's range 50-110 a heart rate of 39 (min - 11) has
\* given a critical alert
C1_Witness ==
    \E p \in Procs :
        /\ PastHeartRate(p)
        /\ call[p].ranges.heartRate.min = Num(500)
        /\ LatestReading(p).field1 = Num(390)
        /\ Len(OfType(call[p].created, "heart-rate")) = 1
        /\ OfType(call[p].created, "heart-rate")[1].severity = "critical"

\* C2 as claimed: an oxygen value of exactly min - 3 gives an oxygen alert of
\* severity critical, and a value strictly between min - 3 and min gives
\* severity warning.
C2_CriticalAtMinMinus3 ==
    \A p \in Procs :
        LET f == LatestReading(p).field2
            r == call[p].ranges.oxygen
            ox == OfType(call[p].created, "oxygen")
        IN  (PastOxygen(p) /\ IsNum(f) /\ IsNum(r.min))
            => /\ f.v = r.min.v - 30 => (Len(ox) = 1 /\ ox[1].severity = "critical")
               /\ (f.v > r.min.v - 30 /\ f.v < r.min.v)
                    => (Len(ox) = 1 /\ ox[1].severity = "warning")

\* C2 amended: the critical boundary is exclusive.  An oxygen value of exactly
\* min - 3 gives an oxygen alert of severity warning, as does every value
\* strictly between min - 3 and min (min - 2.9); the severity is critical
\* exactly for the values below min - 3.
C2_OxygenBoundary ==
    \A p \in Procs :
        LET f == LatestReading(p).field2
            r == call[p].ranges.oxygen
            ox == OfType(call[p].created, "oxygen")
        IN  (PastOxygen(p) /\ IsNum(f) /\ IsNum(r.min))
            => /\ f.v = r.min.v - 30 => (Len(ox) = 1 /\ ox[1].severity = "warning")
               /\ (f.v > r.min.v - 30 /\ f.v < r.min.v)
                    => (Len(ox) = 1 /\ ox[1].severity = "warning")
               /\ f.v < r.min.v - 30 => (Len(ox) = 1 /\ ox[1].severity = "critical")

\* C2 happens: with the default floor 95 an oxygen value of 92 (min - 3) has
\* given a warning
C2_Witness ==
    \E p \in Procs :
        /\ PastOxygen(p)
        /\ call[p].ranges.oxygen.min = Num(950)
        /\ LatestReading(p).field2 = Num(920)
        /\ Len(OfType(call[p].created, "oxygen")) = 1
        /\ OfType(call[p].created, "oxygen")[1].severity = "warning"

\* C3: once the temperature section is done, for a present temperature v and
\* an effective range min <= max, there is a temperature alert (one, in the
\* alerts table) exactly when v < min or v > max, and its severity is critical
\* exactly when v > max + 1 or v < min - 1, else warning; max + 1.5 gives
\* critical and max + 0.5 gives warning.
C3_TemperatureRule ==
    \A p \in Procs :
        LET f == LatestReading(p).field3
            r == call[p].ranges.temperature
            tp == OfType(call[p].created, "temperature")
        IN  (PastTemperature(p) /\ IsNum(f) /\ IsNum(r.min) /\ IsNum(r.max)
                /\ r.min.v <= r.max.v)
            => /\ Len(tp) <= 1
               /\ Len(tp) = 1 <=> (f.v < r.min.v \/ f.v > r.max.v)
               /\ Len(tp) = 1 =>
                    /\ tp[1].severity =
                         IF f.v > r.max.v + 10 \/ f.v < r.min.v - 10
                         THEN "critical" ELSE "warning"
                    /\ f.v = r.max.v + 15 => tp[1].severity = "critical"
                    /\ f.v = r.max.v + 5 => tp[1].severity = "warning"
                    /\ \E i \in DOMAIN alerts : alerts[i] = tp[1]

\* C3 happens: with the default range 36.5-37.5 a temperature of 35.0
\* (below min - 1) has given a critical alert
C3_Witness ==
    \E p \in Procs :
        /\ PastTemperature(p)
        /\ call[p].ranges.temperature = VITAL_RANGES.temperature
        /\ LatestReading(p).field3 = Num(350)
        /\ Len(OfType(call[p].created, "temperature")) = 1
        /\ OfType(call[p].created, "temperature")[1].severity = "critical"

\* the type, severity and message of each row, in order
Summary(rows) ==
    [i \in DOMAIN rows |-> <<rows[i].type, rows[i].severity, rows[i].message>>]

\* the invocation of p has returned from evaluating the scenario's reading
\* {field1: 120, field2: 90, field3: 38.2} for a user without a threshold row
ScenarioDone(p) ==
    /\ PastTemperature(p)
    /\ LatestReading(p) = ScenarioReading
    /\ GetUserThreshold(call[p].userId) = <<>>

\* C4 as claimed: with the default ranges and no custom threshold the
\* reading {field1: 120, field2: 90, field3: 38.2} creates exactly 3 alerts:
\* heart-rate warning, oxygen critical, temperature critical.
C4_ScenarioAsClaimed ==
    \A p \in Procs :
        ScenarioDone(p)
        => /\ Len(call[p].created) = 3
           /\ [i \in 1..3 |-> <<call[p].created[i].type, call[p].created[i].severity>>]
                = << <<"heart-rate", "warning">>, <<"oxygen", "critical">>,
                     <<"temperature", "critical">> >>

\* C4 amended: with the default ranges and no custom threshold the reading
\* {field1: 120, field2: 90, field3: 38.2} creates exactly 3 alerts: a
\* heart-rate alert of severity critical (120 > 100 + 10), an oxygen alert of
\* severity critical (90 < 95 - 3) and a temperature alert of severity
\* warning (38.2 is not above 37.5 + 1); they carry the messages below and
\* are the whole alerts table.
C4_Scenario ==
    \A p \in Procs :
        ScenarioDone(p)
        => /\ call[p].ranges = VITAL_RANGES
           /\ Summary(call[p].created) =
                << <<"heart-rate", "critical",
                     "Heart rate is 120 BPM, outside normal range (60-100 BPM)">>,
                   <<"oxygen", "critical",
                     "Oxygen saturation is 90%, below normal range (>=95%)">>,
                   <<"temperature", "warning",
                     "Temperature is 38.2degC, outside normal range (36.5-37.5degC)">> >>
           /\ alerts = call[p].created

\* C4 happens: the scenario's reading has been evaluated against the defaults
\* and three rows are in the alerts table
C4_Witness ==
    \E p \in Procs : ScenarioDone(p) /\ Len(alerts) = 3

\* field f of the reading is missing, or a number inside [min, max] (max
\* ignored when closed is FALSE)
Within(f, r, closed) ==
    \/ f = Undefined
    \/ /\ IsNum(f) /\ IsNum(r.min) /\ IsNum(r.max)
       /\ r.min.v <= f.v
       /\ closed => f.v <= r.max.v

AllWithin(p) ==
    /\ Within(LatestReading(p).field1, call[p].ranges.heartRate, TRUE)
    /\ Within(LatestReading(p).field2, call[p].ranges.oxygen, FALSE)
    /\ Within(LatestReading(p).field3, call[p].ranges.temperature, TRUE)

\* C5: an invocation on a reading whose every present field lies within its
\* effective range, bounds included, never calls createAlert, at no point of
\* its run, and the alerts table stays as it was (empty, the serial at 1).
C5_InRangeNoAlert ==
    \A p \in Procs :
        (Evaluating(p) /\ AllWithin(p))
        => /\ call[p].pc # "threw"
           /\ call[p].created = <<>>
           /\ call[p].attempts = <<>>
           /\ alerts = <<>>
           /\ currentAlertId = 1

\* C5 happens: an invocation has returned from a reading with all three
\* fields present and on a bound of the range (heart rate = min, oxygen =
\* min, temperature = max)
C5_Witness ==
    \E p \in Procs :
        /\ PastTemperature(p)
        /\ AllWithin(p)
        /\ LatestReading(p).field1 = call[p].ranges.heartRate.min
        /\ LatestReading(p).field2 = call[p].ranges.oxygen.min
        /\ LatestReading(p).field3 = call[p].ranges.temperature.max

\* C6: a reading that lacks a vital's field gives no alert of that vital's
\* type and no createAlert call for it, whatever the other fields and the
\* ranges are; the test is on presence alone, so a present 0 is evaluated:
\* a heart rate, oxygen or temperature of 0 below a positive min gives its
\* alert.
C6_AbsentFieldNoAlert ==
    \A p \in Procs :
        Evaluating(p) =>
            LET rd == LatestReading(p)
                has(type) == \/ OfType(call[p].created, type) # <<>>
                             \/ OfType(alerts, type) # <<>>
                             \/ \E i \in DOMAIN call[p].attempts :
                                    call[p].attempts[i] = type
                zeroBelow(f, r) == f = Num(0) /\ IsNum(r.min) /\ r.min.v > 0
            IN  /\ rd.field1 = Undefined => ~has("heart-rate")
                /\ rd.field2 = Undefined => ~has("oxygen")
                /\ rd.field3 = Undefined => ~has("temperature")
                /\ (PastHeartRate(p) /\ zeroBelow(rd.field1, call[p].ranges.heartRate))
                      => Len(OfType(call[p].created, "heart-rate")) = 1
                /\ (PastOxygen(p) /\ zeroBelow(rd.field2, call[p].ranges.oxygen))
                      => Len(OfType(call[p].created, "oxygen")) = 1
                /\ (PastTemperature(p) /\ zeroBelow(rd.field3, call[p].ranges.temperature))
                      => Len(OfType(call[p].created, "temperature")) = 1

\* C6 happens: a reading without heart rate, with an oxygen of 0 and a
\* temperature far out of range has been evaluated: two alerts, none for the
\* heart rate
C6_Witness ==
    \E p \in Procs :
        /\ PastTemperature(p)
        /\ LatestReading(p).field1 = Undefined
        /\ LatestReading(p).field2 = Num(0)
        /\ LatestReading(p).field3 = Num(395)
        /\ Len(call[p].created) = 2

\* the batch has no feeds member, or one without reading
EmptyBatch(data) == ~data.hasFeeds \/ data.feeds = <<>>

\* C7, the outcome: an invocation on a missing or empty feed batch has
\* returned (it never runs a section, never throws) without a createAlert
\* call.
NoFeedsReturns ==
    \A p \in Procs :
        (call[p].pc # "idle" /\ EmptyBatch(call[p].data))
        => /\ call[p].pc = "returned"
           /\ call[p].created = <<>>
           /\ call[p].attempts = <<>>

\* C7, the writes: the step that takes an invocation on a missing or empty
\* batch from its entry to its return changes neither table nor serial.
NoFeedsNoWrite ==
    \A p \in Procs :
        (call'[p] # call[p] /\ EmptyBatch(call'[p].data))
        => /\ alerts' = alerts
           /\ currentAlertId' = currentAlertId
           /\ thresholds' = thresholds
           /\ currentThresholdId' = currentThresholdId

\* C7: when the feed batch is missing or empty, checkForAlerts returns
\* normally, creates no alert and writes to no store.
C7_NoFeedsNoOp == []NoFeedsReturns /\ [][NoFeedsNoWrite]_vars

\* C7 happens: an invocation has returned from an empty batch, with the three
\* alerts of an earlier poll in the table
C7_Witness ==
    /\ call[1].pc = "returned" /\ call[1].data = Data(<<>>)
    /\ Len(alerts) = 3

\* C8: oxygen is floor-only.  Once the oxygen section is done, an oxygen
\* value at or above the effective min has given no oxygen alert, also when
\* it is above the configured max of 100; and the max of the effective
\* oxygen range is the default whatever threshold row the user has.
C8_OxygenFloorOnly ==
    \A p \in Procs :
        LET f == LatestReading(p).field2
            r == call[p].ranges.oxygen
        IN  /\ (PastOxygen(p) /\ IsNum(f) /\ IsNum(r.min) /\ f.v >= r.min.v)
                 => /\ OfType(call[p].created, "oxygen") = <<>>
                    /\ OfType(alerts, "oxygen") = <<>>
            /\ Evaluating(p) => r.max = Num(1000)

\* C8 happens: for a user with a threshold row, an oxygen value of 101 has
\* been evaluated without an alert
C8_Witness ==
    \E p \in Procs :
        /\ PastOxygen(p)
        /\ GetUserThreshold(call[p].userId) # <<>>
        /\ LatestReading(p).field2 = Num(1010)
        /\ OfType(call[p].created, "oxygen") = <<>>

\* s is <<"heart-rate", "oxygen", "temperature">> with some entries left out
InEvaluationOrder(s) ==
    LET rank(type) == CASE type = "heart-rate" -> 1
                        [] type = "oxygen" -> 2
                        [] OTHER -> 3
    IN  \A i, j \in DOMAIN s : i < j => rank(s[i]) < rank(s[j])

\* C9: an invocation calls createAlert at most three times, at most once per
\* type and in the order heart-rate, oxygen, temperature; every call but a
\* rejected last one inserts one row, with the invocation's userId and isRead
\* false, and that row is in the alerts table; the table holds at most three
\* rows per invocation started.
C9_AtMostOncePerType ==
    /\ \A p \in Procs :
          /\ Len(call[p].attempts) <= 3
          /\ InEvaluationOrder(call[p].attempts)
          /\ [i \in DOMAIN call[p].created |-> call[p].created[i].type]
               = SubSeq(call[p].attempts, 1, Len(call[p].created))
          /\ Len(call[p].attempts) - Len(call[p].created)
               = IF call[p].pc = "threw" THEN 1 ELSE 0
          /\ \A i \in DOMAIN call[p].created :
                /\ call[p].created[i].userId = call[p].userId
                /\ call[p].created[i].isRead = FALSE
                /\ alerts[call[p].created[i].id] = call[p].created[i]
    /\ Len(alerts) <= 3 * invocations
    /\ currentAlertId = Len(alerts) + 1

\* C9 happens: two invocations for different users have run at the same
\* time and each has inserted its three rows
C9_Witness ==
    /\ call[1].pc = "returned" /\ Len(call[1].created) = 3
    /\ call[2].pc = "returned" /\ Len(call[2].created) = 3
    /\ call[1].userId # call[2].userId
    /\ alerts[1].userId # alerts[2].userId

RECURSIVE Repeated(_, _)
Repeated(s, n) == IF n = 0 THEN <<>> ELSE s \o Repeated(s, n - 1)

\* the userId, type, severity and message of each row, in order
Content(rows) ==
    [i \in DOMAIN rows |->
        <<rows[i].userId, rows[i].type, rows[i].severity, rows[i].message>>]

\* C10: after N polls with the same user, the same reading and the same
\* thresholds, the alerts table holds N times the alerts of one poll (those
\* of the last one), whichever of the earlier alerts are read or unread.
C10_NoDeduplication ==
    (call[1].pc = "returned")
    => Content(alerts) = Repeated(Content(call[1].created), invocations)

\* C10 happens: the second poll of an out-of-range reading has returned, an
\* alert of the first poll is read, another is not, and six rows are stored
C10_Witness ==
    /\ call[1].pc = "returned"
    /\ invocations = 2
    /\ Len(alerts) = 6
    /\ alerts[1].isRead /\ ~alerts[2].isRead

\* the columns of an alert row other than isRead
Frame(row) == [f \in DOMAIN row \ {"isRead"} |-> row[f]]

\* C11: over evaluator invocations and mark-as-read operations no alert is
\* removed from the alerts table (every row stays at its place with its id
\* and its other columns), a row is created with isRead false, and isRead
\* only changes from false to true, never back.
C11_AlertsKeptReadMonotone ==
    [][/\ Len(alerts') >= Len(alerts)
       /\ \A i \in DOMAIN alerts :
            /\ Frame(alerts'[i]) = Frame(alerts[i])
            /\ alerts[i].isRead => alerts'[i].isRead
       /\ \A i \in DOMAIN alerts' \ DOMAIN alerts : ~alerts'[i].isRead]_vars

\* C11 happens: a second poll has added alerts after the first poll's
\* heart-rate alert was marked as read, and the mark is still there
C11_Witness ==
    /\ Len(alerts) = 5
    /\ invocations = 2
    /\ alerts[1].isRead
    /\ \A i \in 2..5 : ~alerts[i].isRead

\* C12: markAlertAsRead(id) changes only the isRead column of the row with
\* that id, to true: the row's other columns and every other row are as
\* before, no row is added or removed, and on a row already read it changes
\* nothing (twice is the same as once).  A mark-as-read step is a step by
\* which no invocation moves.
C12_MarkAlertAsReadFrame ==
    [][(call' = call /\ thresholds' = thresholds)
        => \E id \in 1..currentAlertId :
              /\ DOMAIN alerts' = DOMAIN alerts
              /\ \A i \in DOMAIN alerts :
                    alerts'[i] = IF alerts[i].id = id
                                 THEN [alerts[i] EXCEPT !.isRead = TRUE]
                                 ELSE alerts[i]]_vars

\* C12 happens: of three alerts the second alone has been marked as read
C12_Witness ==
    /\ Len(alerts) = 3
    /\ alerts[2].isRead
    /\ ~alerts[1].isRead
    /\ ~alerts[3].isRead
    /\ alerts[2] = [alerts[2] EXCEPT !.isRead = TRUE]
    /\ alerts[2].id = 2 /\ alerts[2].type = "oxygen"

\* the number, in tenths, that each decimal string kept in the thresholds
\* table denotes
TenthsOf(s) ==
    CASE s = <<"5", "0">> -> 500
      [] s = <<"6", "0">> -> 600
      [] s = <<"1", "0", "0">> -> 1000
      [] s = <<"1", "1", "0">> -> 1100
      [] s = <<"9", "0">> -> 900
      [] s = <<"9", "2", ".", "5">> -> 925
      [] s = <<"9", "5">> -> 950
      [] s = <<"3", "6">> -> 360
      [] s = <<"3", "6", ".", "5">> -> 365
      [] s = <<"3", "7", ".", "5">> -> 375
      [] s = <<"3", "8">> -> 380

\* C13: the ranges an invocation evaluates against.  Without a threshold row
\* of the user the five bounds are the defaults 60, 100, 95, 36.5, 37.5;
\* with a row, each bound is the number its column denotes, which for a
\* column the user never set is the default again.
C13_ThresholdResolution ==
    \A p \in Procs :
        Evaluating(p) =>
            LET rows == GetUserThreshold(call[p].userId)
                r == call[p].ranges
            IN  IF rows = <<>>
                THEN /\ r.heartRate.min = Num(600) /\ r.heartRate.max = Num(1000)
                     /\ r.oxygen.min = Num(950)
                     /\ r.temperature.min = Num(365) /\ r.temperature.max = Num(375)
                ELSE /\ r.heartRate.min = Num(TenthsOf(rows[1].heartRateMin))
                     /\ r.heartRate.max = Num(TenthsOf(rows[1].heartRateMax))
                     /\ r.oxygen.min = Num(TenthsOf(rows[1].oxygenMin))
                     /\ r.temperature.min = Num(TenthsOf(rows[1].temperatureMin))
                     /\ r.temperature.max = Num(TenthsOf(rows[1].temperatureMax))

\* C13 happens: user 2, who set the oxygen floor alone, is evaluated against
\* 92.5 and the defaults of the other four bounds
C13_Witness ==
    /\ Evaluating(1)
    /\ call[1].userId = 2
    /\ GetUserThreshold(2) # <<>>
    /\ call[1].ranges.oxygen.min = Num(925)
    /\ call[1].ranges.heartRate = VITAL_RANGES.heartRate
    /\ call[1].ranges.temperature = VITAL_RANGES.temperature

\* a stored threshold value that is not empty and is not a number
Unparseable(s) == s = <<"N", "a", "N">>

\* C14 as claimed: when the heart-rate minimum of the user's threshold row
\* is a non-empty value that is not a number, the invocation evaluates
\* against the default minimum 60, so a heart rate below 60 has its
\* heart-rate alert once the heart-rate section is done.
C14_UnparseableFallsBack ==
    \A p \in Procs :
        LET rows == GetUserThreshold(call[p].userId)
            f == LatestReading(p).field1
        IN  (PastHeartRate(p) /\ rows # <<>> /\ Unparseable(rows[1].heartRateMin)
                /\ IsNum(f) /\ f.v < 600)
            => /\ call[p].ranges.heartRate.min = Num(600)
               /\ Len(OfType(call[p].created, "heart-rate")) = 1

\* C15: after any sequence of createOrUpdateThreshold calls made one after
\* another, no two threshold rows have the same userId.  A call for a user
\* without a row adds one row (new id, the supplied bounds, the defaults for
\* the others) and touches no other; a call for a user with a row changes
\* that row alone, which keeps its id and takes the supplied bounds; no row
\* is ever removed.
C15_ThresholdUpsert ==
    /\ [](\A i, j \in DOMAIN thresholds :
            thresholds[i].userId = thresholds[j].userId => i = j)
    /\ [][thresholds' # thresholds =>
            \E u \in Users, body \in ThresholdBodies :
              IF \A i \in DOMAIN thresholds : thresholds[i].userId # u
              THEN /\ Len(thresholds') = Len(thresholds) + 1
                   /\ \A i \in DOMAIN thresholds : thresholds'[i] = thresholds[i]
                   /\ LET new == thresholds'[Len(thresholds')] IN
                        /\ new.userId = u
                        /\ \A i \in DOMAIN thresholds : thresholds[i].id # new.id
                        /\ \A f \in ThresholdFields :
                              new[f] = IF body[f] = Unset THEN ColumnDefault(f)
                                       ELSE body[f]
              ELSE /\ Len(thresholds') = Len(thresholds)
                   /\ \A i \in DOMAIN thresholds :
                        IF thresholds[i].userId # u
                        THEN thresholds'[i] = thresholds[i]
                        ELSE /\ thresholds'[i].id = thresholds[i].id
                             /\ thresholds'[i].userId = u
                             /\ \A f \in ThresholdFields :
                                   thresholds'[i][f] =
                                      IF body[f] = Unset THEN thresholds[i][f]
                                      ELSE body[f]]_vars

\* C15 happens: user 1's row, created by a full customisation, has since
\* taken a new oxygen floor under the same id, and user 2 has a row of their
\* own
C15_Witness ==
    /\ Len(thresholds) = 2
    /\ thresholds[1].id = 1 /\ thresholds[1].userId = 1
    /\ thresholds[1].heartRateMin = <<"5", "0">>
    /\ thresholds[1].oxygenMin = <<"9", "2", ".", "5">>
    /\ thresholds[2].id = 2 /\ thresholds[2].userId = 2

\* C16 as claimed: whatever threshold requests were accepted, the heart-rate
\* and temperature ranges an invocation resolves have min <= max (bounds
\* that are not numbers aside).
C16_RangesOrdered ==
    \A p \in Procs :
        Evaluating(p) =>
            LET hr == call[p].ranges.heartRate
                t == call[p].ranges.temperature
            IN  /\ (IsNum(hr.min) /\ IsNum(hr.max)) => hr.min.v <= hr.max.v
                /\ (IsNum(t.min) /\ IsNum(t.max)) => t.min.v <= t.max.v

\* C17: an invocation in which createAlert was called more often than it
\* inserted has thrown: the rejected call is its last one, made once, the
\* handler has answered with status 500 and not with the data, and the
\* invocation does nothing more.  Status 200 with the data is answered only
\* by an invocation that returned.
C17_CreateAlertFailurePropagates ==
    /\ [](\A p \in Procs :
            /\ Len(call[p].attempts) # Len(call[p].created)
                  => /\ call[p].pc = "threw"
                     /\ Len(call[p].attempts) = Len(call[p].created) + 1
            /\ call[p].pc = "threw"
                  => /\ call[p].res = Status500
                     /\ Len(call[p].attempts) = Len(call[p].created) + 1
                     /\ \A i \in DOMAIN call[p].created :
                           call[p].created[i].type = call[p].attempts[i]
                     /\ \A i \in DOMAIN call[p].created :
                           call[p].created[i].type
                              # call[p].attempts[Len(call[p].attempts)]
            /\ call[p].res = JsonData <=> call[p].pc = "returned")
    /\ [][\A p \in Procs :
             call[p].pc = "threw"
                => (call'[p] = call[p] \/ call'[p].attempts = <<>>)]_vars

\* C17 happens: the heart-rate alert of the scenario was written, the oxygen
\* insert was rejected, and the handler has answered 500
C17_Witness ==
    /\ call[1].pc = "threw"
    /\ call[1].res.status = 500
    /\ call[1].data = Data(<<ScenarioReading>>)
    /\ call[1].attempts = <<"heart-rate", "oxygen">>
    /\ Len(call[1].created) = 1

\* the invocation of p is over
Ended(p) == call[p].pc \in {"returned", "threw"}

\* the vital whose insert was rejected, if one was
FailedType(p) ==
    IF call[p].pc = "threw" THEN call[p].attempts[Len(call[p].attempts)] ELSE "none"

\* place of a vital in the evaluation order
Rank(type) ==
    CASE type = "heart-rate" -> 1
      [] type = "oxygen" -> 2
      [] type = "temperature" -> 3
      [] OTHER -> 4

VitalTypes == {"heart-rate", "oxygen", "temperature"}

\* the rule of each vital in terms of its own field and its own range alone
OwnRuleDue(p, type) ==
    LET rd == LatestReading(p)
        r == call[p].ranges
    IN  CASE type = "heart-rate" ->
               IsNum(rd.field1) /\ (\/ rd.field1.v < r.heartRate.min.v
                                     \/ rd.field1.v > r.heartRate.max.v)
          [] type = "oxygen" ->
               IsNum(rd.field2) /\ rd.field2.v < r.oxygen.min.v
          [] OTHER ->
               IsNum(rd.field3) /\ (\/ rd.field3.v < r.temperature.min.v
                                     \/ rd.field3.v > r.temperature.max.v)

OwnRuleSeverity(p, type) ==
    LET rd == LatestReading(p)
        r == call[p].ranges
    IN  CASE type = "heart-rate" ->
               IF \/ rd.field1.v < r.heartRate.min.v - 100
                  \/ rd.field1.v > r.heartRate.max.v + 100
               THEN "critical" ELSE "warning"
          [] type = "oxygen" ->
               IF rd.field2.v < r.oxygen.min.v - 30 THEN "critical" ELSE "warning"
          [] OTHER ->
               IF \/ rd.field3.v > r.temperature.max.v + 10
                  \/ rd.field3.v < r.temperature.min.v - 10
               THEN "critical" ELSE "warning"

\* the alert of a type is there exactly when the vital's own rule asks for it
AsOwnRule(p, type) ==
    LET a == OfType(call[p].created, type)
    IN  /\ Len(a) = IF OwnRuleDue(p, type) THEN 1 ELSE 0
        /\ Len(a) = 1 => a[1].severity = OwnRuleSeverity(p, type)

\* every row the invocation inserted is in the alerts table
NotRolledBack(p) ==
    \A i \in DOMAIN call[p].created :
        \E j \in DOMAIN alerts : alerts[j] = call[p].created[i]

\* C18 as claimed: when an invocation is over, every vital other than the
\* one whose insert was rejected has its alert exactly when its own field is
\* out of its own range, with the severity of its own rule, also the vitals
\* that come after the rejected one; the rows written before the rejection
\* are still in the table.
C18_IndependentDespiteFailure ==
    \A p \in Procs :
        (Evaluating(p) /\ Ended(p))
        => /\ \A type \in VitalTypes :
                 type # FailedType(p) => AsOwnRule(p, type)
           /\ NotRolledBack(p)

\* C18 amended: a rejected insert ends the invocation.  When an invocation
\* is over, every vital before the rejected one (all three when none was
\* rejected) has its alert exactly when its own field is out of its own
\* range, with the severity of its own rule, whatever the other two fields
\* are; the rejected vital and the vitals after it have no alert, even when
\* out of range; the rows written before the rejection are still in the
\* table.
C18_IndependentUntilFailure ==
    \A p \in Procs :
        (Evaluating(p) /\ Ended(p))
        => /\ \A type \in VitalTypes :
                 IF Rank(type) < Rank(FailedType(p))
                 THEN AsOwnRule(p, type)
                 ELSE OfType(call[p].created, type) = <<>>
           /\ NotRolledBack(p)

\* C18 happens: the insert of the oxygen alert was rejected after the
\* heart-rate alert was written; the temperature, out of range too, has no
\* alert, and the heart-rate alert is still in the table
C18_Witness ==
    /\ call[1].pc = "threw"
    /\ FailedType(1) = "oxygen"
    /\ OwnRuleDue(1, "temperature")
    /\ OfType(call[1].created, "temperature") = <<>>
    /\ Len(OfType(alerts, "heart-rate")) = 1
    /\ Len(alerts) = 1

\* the reading at index 0 of the batch of p, and the readings after it
FirstOfBatch(p) == call[p].data.feeds[1]
RestOfBatch(p) == Tail(call[p].data.feeds)

\* every vital of a reading is inside the ranges
InsideRanges(rd, r) ==
    /\ rd.field1.v >= r.heartRate.min.v /\ rd.field1.v <= r.heartRate.max.v
    /\ rd.field2.v >= r.oxygen.min.v
    /\ rd.field3.v >= r.temperature.min.v /\ rd.field3.v <= r.temperature.max.v

\* C19: two invocations that returned, for the same user with the same
\* ranges, on batches with the same reading at index 0, created alerts of the
\* same types, severities and messages, whatever readings follow at index 1
\* and beyond; and an invocation whose reading at index 0 is inside the
\* ranges created no alert, whatever out-of-range readings follow it.
C19_OnlyFirstReading ==
    /\ \A p, q \in Procs :
          (/\ PastTemperature(p) /\ PastTemperature(q)
           /\ call[p].userId = call[q].userId
           /\ call[p].ranges = call[q].ranges
           /\ FirstOfBatch(p) = FirstOfBatch(q))
          => Summary(call[p].created) = Summary(call[q].created)
    /\ \A p \in Procs :
          (PastTemperature(p) /\ InsideRanges(FirstOfBatch(p), call[p].ranges))
          => call[p].created = <<>>

\* C19 happens: the scenario's reading alone and the scenario's reading
\* followed by a normal one have both given three alerts to the same user
C19_Witness ==
    /\ PastTemperature(1) /\ PastTemperature(2)
    /\ call[1].userId = call[2].userId
    /\ call[1].data = Data(<<ScenarioReading, NormalReading>>)
    /\ call[2].data = Data(<<ScenarioReading>>)
    /\ Len(call[1].created) = 3 /\ Len(call[2].created) = 3
    /\ Len(alerts) = 6

\* C20: two invocations that returned after evaluating the same reading
\* against the same ranges (the same stored threshold values) created
\* alerts of the same types, severities and messages, whoever the users are,
\* whatever alerts the table held when each began, and whatever other
\* invocations and threshold requests ran in between.
C20_Deterministic ==
    \A p, q \in Procs :
        (/\ PastTemperature(p) /\ PastTemperature(q)
         /\ LatestReading(p) = LatestReading(q)
         /\ call[p].ranges = call[q].ranges)
        => Summary(call[p].created) = Summary(call[q].created)

\* C20 happens: the second handler began the scenario's reading for user 2
\* when the table already held alerts of user 1 for the same reading, both
\* against the default ranges, and both have created the same three alerts
C20_Witness ==
    /\ PastTemperature(1) /\ PastTemperature(2)
    /\ call[1].userId = 1 /\ call[2].userId = 2
    /\ LatestReading(1) = ScenarioReading /\ LatestReading(2) = ScenarioReading
    /\ call[1].ranges = VITAL_RANGES /\ call[2].ranges = VITAL_RANGES
    /\ Len(call[1].created) = 3
    /\ Summary(call[1].created) = Summary(call[2].created)
    /\ alerts[1].userId = 1 /\ alerts[2].userId = 1 /\ alerts[3].userId = 2

\* the text of a stored string
RECURSIVE JoinChars(_)
JoinChars(s) == IF s = <<>> THEN "" ELSE Head(s) \o JoinChars(Tail(s))

\* the decimal text of a non-negative number of tenths
TenthsText(n) ==
    IF n % 10 = 0 THEN ToString(n \div 10)
    ELSE ToString(n \div 10) \o "." \o ToString(n % 10)

\* the text of a bound of user u: the stored column, or the default's text
BoundText(u, f, default) ==
    IF GetUserThreshold(u) = <<>> THEN default ELSE JoinChars(GetUserThreshold(u)[1][f])

\* C21: the message of every alert an invocation created carries the value
\* of the reading and the bounds of the user's stored thresholds (the
\* defaults only where the user has no row): min and max for heart rate and
\* temperature, the min alone for oxygen.
C21_MessageBounds ==
    \A p \in Procs :
        Evaluating(p) =>
            LET u == call[p].userId
                rd == call[p].data.feeds[1]
            IN  \A i \in DOMAIN call[p].created :
                  LET a == call[p].created[i] IN
                    /\ a.type = "heart-rate" =>
                         a.message = "Heart rate is " \o TenthsText(rd.field1.v)
                            \o " BPM, outside normal range ("
                            \o BoundText(u, "heartRateMin", "60") \o "-"
                            \o BoundText(u, "heartRateMax", "100") \o " BPM)"
                    /\ a.type = "oxygen" =>
                         a.message = "Oxygen saturation is " \o TenthsText(rd.field2.v)
                            \o "%, below normal range (>="
                            \o BoundText(u, "oxygenMin", "95") \o "%)"
                    /\ a.type = "temperature" =>
                         a.message = "Temperature is " \o TenthsText(rd.field3.v)
                            \o "degC, outside normal range ("
                            \o BoundText(u, "temperatureMin", "36.5") \o "-"
                            \o BoundText(u, "temperatureMax", "37.5") \o "degC)"

\* C21 happens: user 1, with the custom ranges 50-110, 90 and 36-38, has the
\* three alerts of the reading {field1: 120, field2: 87, field3: 39.1}
C21_Witness ==
    /\ PastTemperature(1)
    /\ call[1].userId = 1
    /\ Len(call[1].created) = 3
    /\ call[1].created[1].message
          = "Heart rate is 120 BPM, outside normal range (50-110 BPM)"
    /\ call[1].created[2].message
          = "Oxygen saturation is 87%, below normal range (>=90%)"
    /\ call[1].created[3].message
          = "Temperature is 39.1degC, outside normal range (36-38degC)"

\* the rows of a sequence, as a set
RowSet(rows) == {rows[i] : i \in DOMAIN rows}

\* C22: two overlapping evaluations for the same user are not serialised:
\* once both have returned, each has written every alert its reading asks
\* for on its own, every row either wrote is in the alerts table under an id
\* of its own, and when these are the only two invocations so far the table
\* holds their rows and nothing else (as many rows as both wrote together).
C22_InterleavedUnion ==
    (/\ PastTemperature(1) /\ PastTemperature(2)
     /\ call[1].userId = call[2].userId)
    => /\ \A p \in Procs : \A type \in VitalTypes : AsOwnRule(p, type)
       /\ \A p \in Procs : NotRolledBack(p)
       /\ \A i \in DOMAIN call[1].created : \A j \in DOMAIN call[2].created :
             call[1].created[i].id # call[2].created[j].id
       /\ \A i, j \in DOMAIN alerts : alerts[i].id = alerts[j].id => i = j
       /\ invocations = 2 =>
             /\ RowSet(alerts) = RowSet(call[1].created) \cup RowSet(call[2].created)
             /\ Len(alerts) = Len(call[1].created) + Len(call[2].created)

\* C22 happens: two evaluations of the scenario's reading for user 1 have
\* written their alerts in turns, and the table holds all six
C22_Witness ==
    /\ PastTemperature(1) /\ PastTemperature(2)
    /\ call[1].userId = 1 /\ call[2].userId = 1
    /\ invocations = 2
    /\ Len(alerts) = 6
    /\ alerts[1] = call[1].created[1]
    /\ alerts[2] = call[2].created[1]
    /\ alerts[3] = call[1].created[2]
    /\ alerts[4] = call[2].created[2]

\* C23 as claimed: also with two createOrUpdateThreshold calls interleaved at
\* their awaits, no two threshold rows have the same userId.
C23_OneThresholdPerUser ==
    \A i, j \in DOMAIN thresholds :
        thresholds[i].userId = thresholds[j].userId => i = j

\* C24: a PATCH /api/alerts/:id/read request marks the alert with the id as
\* read, and answers 200, exactly when the alert exists and its userId is
\* the session user's; for an alert of another user or an id no alert has it
\* answers 404 and the alerts table is unchanged.  Either way no other row
\* and no other column changes.
C24_PatchAlertReadOwnerOnly ==
    [][(request'[2].route = "PATCH /api/alerts/:id/read" /\ call'[1] = call[1])
        => LET u == call'[2].userId
               id == call'[2].alertId
               own == \E i \in DOMAIN alerts :
                         alerts[i].id = id /\ alerts[i].userId = u
           IN  IF own
               THEN /\ call'[2].res.status = 200
                    /\ DOMAIN alerts' = DOMAIN alerts
                    /\ \A i \in DOMAIN alerts :
                          alerts'[i] = IF alerts[i].id = id
                                       THEN [alerts[i] EXCEPT !.isRead = TRUE]
                                       ELSE alerts[i]
               ELSE /\ call'[2].res.status = 404
                    /\ alerts' = alerts]_vars

\* C24 happens: user 2 has asked to mark alert 1, which is user 1's and
\* unread, and got 404, after user 1 marked their alert 2
C24_Witness ==
    /\ request[2].route = "PATCH /api/alerts/:id/read"
    /\ call[2].userId = 2 /\ call[2].alertId = 1
    /\ call[2].res.status = 404
    /\ Len(alerts) >= 2
    /\ alerts[1].userId = 1 /\ ~alerts[1].isRead
    /\ alerts[2].userId = 1 /\ alerts[2].isRead

\* the routes under /api/patients/:id
PatientRoutes ==
    {"GET /api/patients/:id/thresholds", "POST /api/patients/:id/thresholds",
     "GET /api/patients/:id/vitals/latest"}

\* the requester of r is a caregiver and the patientId of the user r names
\* is the requester's id
Authorised(r) ==
    /\ r.route \in PatientRoutes
    /\ Role(r.sessionUser) = "caregiver"
    /\ PatientId(r.id) = r.sessionUser

\* C25: whenever a handler has asked the storage for the thresholds or the
\* devices of a user other than the session user, or has written a threshold
\* row of such a user, the request came by a /api/patients/:id/... route for
\* that user, from a caregiver whose id is that user's patientId; every
\* other request by such a route is answered 403 and leaves the thresholds
\* table as it was.
C25_OtherUsersOnlyForCaregiver ==
    [][LET r == request'[1]
           c == call'[1]
           written == RowSet(thresholds') \ RowSet(thresholds)
       IN  /\ (c.userId \notin {0, r.sessionUser})
                => (Authorised(r) /\ c.userId = r.id)
           /\ \A row \in written :
                 \/ row.userId = r.sessionUser
                 \/ Authorised(r) /\ row.userId = r.id
           /\ (r.route \in PatientRoutes /\ ~Authorised(r))
                => (c.res = Status403 /\ thresholds' = thresholds)]_vars

\* C25 happens: patient 1, whose row is customised, has asked to write the
\* thresholds of patient 2, whose patientId is 1, and got 403; patient 2 has
\* no row
C25_Witness ==
    /\ request[1] \in {Request("POST /api/patients/:id/thresholds", 1, 2, body) :
                          body \in AccessBodies}
    /\ call[1].res = Status403
    /\ GetUserThreshold(2) = <<>>
    /\ GetUserThreshold(1) # <<>>
    /\ GetUserThreshold(1)[1].heartRateMin = <<"5", "0">>

\* C26: a POST /api/thresholds request creates or modifies no row but the
\* session user's, whatever userId its body carries: the rows of the other
\* users stay as they are, at most one row is added, and after a 201 the
\* session user has a row with the bounds of the body.
C26_PostThresholdsSessionUser ==
    [][request'[1].route = "POST /api/thresholds"
        => LET r == request'[1] IN
             /\ \A i \in DOMAIN thresholds :
                   /\ i \in DOMAIN thresholds'
                   /\ thresholds[i].userId # r.sessionUser
                        => thresholds'[i] = thresholds[i]
             /\ Len(thresholds') <= Len(thresholds) + 1
             /\ \A i \in DOMAIN thresholds' \ DOMAIN thresholds :
                   thresholds'[i].userId = r.sessionUser
             /\ call'[1].res.status = 201
                  => \E i \in DOMAIN thresholds' :
                        /\ thresholds'[i].userId = r.sessionUser
                        /\ \A f \in ThresholdFields :
                              r.body[f] # Unset => thresholds'[i][f] = r.body[f]]_vars

\* C26 happens: patient 1 has posted a body that carries the userId of
\* patient 2 and got 201; the row written is patient 1's, patient 2 has none
C26_Witness ==
    /\ request[1].route = "POST /api/thresholds"
    /\ request[1].sessionUser = 1
    /\ request[1].body.userId = 2
    /\ call[1].res.status = 201
    /\ GetUserThreshold(2) = <<>>
    /\ Len(GetUserThreshold(1)) = 1
    /\ GetUserThreshold(1)[1].temperatureMax = <<"3", "8">>

\* C27: the device a POST /api/devices request inserts has the userId of
\* the session user who made the request.
C27_DeviceOwnedBySessionUser ==
    [][devices' # devices
        => devices'[Len(devices')].userId = request'[2].sessionUser]_vars

\* the alerts table has grown by one row of the requester's in a step of
\* handler p, which serves a GET /api/vitals/latest request, is inside
\* checkForAlerts and has not answered
OwnPollWrites(p) ==
    /\ request[p].route = "GET /api/vitals/latest"
    /\ request'[p] = request[p]
    /\ call[p].pc \in {"heartRate", "oxygen", "temperature"}
    /\ call[p].res = NoResponse
    /\ call'[p] # call[p]
    /\ Len(alerts') = Len(alerts) + 1
    /\ SubSeq(alerts', 1, Len(alerts)) = alerts
    /\ alerts'[Len(alerts')].userId = request[p].sessionUser

\* C28: the alerts table changes only by a row with the requester's id,
\* appended while a GET /api/vitals/latest request of that user is inside
\* checkForAlerts and before it is answered.  A request for vitals that was
\* answered 404 or 500, and any GET /api/patients/:id/vitals/latest
\* request, has created no alert; a poll answered with the data has all
\* the alerts it created in the table.
C28_AlertsOnlyByOwnPoll ==
    /\ [][alerts' # alerts => \E p \in Procs : OwnPollWrites(p)]_vars
    /\ [](\A p \in Procs :
            /\ (call[p].res.status \in {404, 500}) => call[p].created = <<>>
            /\ (request[p].route = "GET /api/patients/:id/vitals/latest")
                 => (call[p].created = <<>> /\ ~Running(p))
            /\ (call[p].res = JsonData /\ request[p].route = "GET /api/vitals/latest")
                 => /\ \A i \in DOMAIN call[p].created :
                          /\ call[p].created[i] \in RowSet(alerts)
                          /\ call[p].created[i].userId = request[p].sessionUser
                    /\ call[p].pc = "returned")

\* C28 happens: patient 1's poll was answered with the data after its two
\* alerts were stored, and the caregiver has read patient 1's vitals; the
\* table holds the two alerts and no more
C28_Witness ==
    /\ request[1].route = "GET /api/vitals/latest"
    /\ request[1].sessionUser = 1
    /\ call[1].res = JsonData
    /\ Len(call[1].created) = 2
    /\ request[2] = Request("GET /api/patients/:id/vitals/latest", Caregiver, 1, NoInsert)
    /\ call[2].res = JsonData
    /\ Len(alerts) = 2
    /\ \A i \in DOMAIN alerts : alerts[i].userId = 1

\* C29: a PATCH /api/alerts/read-all request of the session user leaves
\* every alert of that user read and the alerts of the other users as they
\* were.
C29_ReadAllMarksEveryAlert ==
    [][(request'[2].route = "PATCH /api/alerts/read-all" /\ call'[1] = call[1])
        => /\ DOMAIN alerts' = DOMAIN alerts
           /\ \A i \in DOMAIN alerts :
                 IF alerts[i].userId = request'[2].sessionUser
                 THEN alerts'[i] = [alerts[i] EXCEPT !.isRead = TRUE]
                 ELSE alerts'[i] = alerts[i]]_vars

\* the alerts table after the section of handler p that ends in this step:
\* one row more when the vital is present and outside the ranges given,
\* with the message built from those ranges
AfterSection(p, ranges) ==
    LET reading == call[p].data.feeds[1]
        u == call[p].userId
        due == CASE call[p].pc = "heartRate" ->
                      Present(reading.field1) /\ HeartRateOutOfRange(reading.field1, ranges)
                 [] call[p].pc = "oxygen" ->
                      Present(reading.field2) /\ OxygenOutOfRange(reading.field2, ranges)
                 [] OTHER ->
                      Present(reading.field3) /\ TemperatureOutOfRange(reading.field3, ranges)
        insertAlert == CASE call[p].pc = "heartRate" -> HeartRateAlert(u, reading.field1, ranges)
                         [] call[p].pc = "oxygen" -> OxygenAlert(u, reading.field2, ranges)
                         [] OTHER -> TemperatureAlert(u, reading.field3, ranges)
    IN  IF due THEN Append(alerts, NewAlertRow(insertAlert)) ELSE alerts

\* C30: the ranges of an invocation are resolved from the user's threshold
\* row as it is at the entry of checkForAlerts and stay the same until the
\* invocation ends, whatever createOrUpdateThreshold writes meanwhile; each
\* section compares its vital with those ranges and builds its message
\* from them.
C30_ThresholdSnapshot ==
    [][\A p \in Procs :
          /\ (~Running(p) /\ call'[p].pc = "heartRate")
               => call'[p].ranges =
                     ResolveRanges(GetUserThreshold(call'[p].userId), VITAL_RANGES)
          /\ Running(p) => call'[p].ranges = call[p].ranges
          /\ (Running(p) /\ call'[p].pc \notin {call[p].pc, "threw"})
               => alerts' = AfterSection(p, call[p].ranges)]_vars

\* C30 happens: two invocations for user 1 overlap; the first was entered
\* under the defaults, the second under the customised row, and the second
\* wrote its heart-rate alert before the first wrote an oxygen alert that
\* the customised floor of 90 would not have raised
C30_Witness ==
    \E p \in Procs, q \in Procs :
       /\ call[p].userId = 1 /\ call[q].userId = 1
       /\ call[p].ranges = VITAL_RANGES
       /\ call[q].ranges.oxygen.min = Num(900)
       /\ \E i \in DOMAIN call[p].created, j \in DOMAIN call[q].created :
             /\ call[p].created[i].type = "oxygen"
             /\ call[q].created[j].type = "heart-rate"
             /\ call[q].created[j].id < call[p].created[i].id

====
